---- MODULE Spec2Model ----
(***************************************************************************)
(* FerroFrame core: the FerroHost lifecycle and render scheduler          *)
(* (packages/core/src/host.js) running on the Node.js event loop, with    *)
(* the parts of Renderer (renderer.js) and InputManager (input.js) that   *)
(* acquire and release the terminal; the Component update scheduler and   *)
(* the ComponentTree focus and key dispatch (component.js); the Renderer  *)
(* painting frames on a terminal display; the InputManager decoder.       *)
(*                                                                         *)
(* Event loop: an async function runs synchronously up to its first       *)
(* await; the continuation is a promise job.  Promise jobs run FIFO       *)
(* (micro); setImmediate callbacks and stdin 'data' events are macrotasks *)
(* and run only when no promise job is queued.                             *)
(***************************************************************************)
EXTENDS Integers, Sequences, FiniteSets, TLC

\* ------------------------------------------------------------ bounds ----
MaxCalls == 5        \* API calls and key presses issued in one behaviour
Hosts == {1, 2}      \* FerroHost instances the model can construct
MaxTaskCalls == 3    \* Component methods called within one task
StateValues == {1, 2} \* values setState() is given for state.x
MaxLines == 3       \* lines of one frame handed to Renderer.render
MaxKeys == 2        \* input chunks arriving on stdin in one behaviour
MaxTreeNodes == 3   \* LayoutNode objects attached to and detached from one another
MaxItems == 3       \* children of the container the layout engine runs on
MaxPasses == 2      \* Layout.calculate calls on one tree

\* --------------------------------------------------------- variables ----
VARIABLES
  isRunning,      \* host.isRunning
  componentTree,  \* host.componentTree: NoComponent or an instance
  renderer,       \* host.renderer: "null", "initialized" or "cleaned"
  inputManager,   \* host.inputManager: "null", "created" or "active"
  renderTimer,    \* host.renderTimer: "null" or "immediate"
  isDirty,        \* host.isDirty
  errorListener,  \* whether an 'error' listener is registered on the host
  micro,          \* promise-job queue: continuations of async calls, FIFO
  waiting,        \* continuations awaiting a still pending hook promise
  immediates,     \* setImmediate queue: hosts whose render callback is due
  exitCode,       \* "running", "exit0" (process.exit(0)) or "uncaught"
  isTTY,          \* process.stdin.isTTY
  rawMode,        \* stdin raw mode, as left by setRawMode
  cursorHidden,   \* terminal cursor hidden (ESC[?25l) or shown (ESC[?25h)
  dataListeners,  \* number of 'data' listeners registered on process.stdin
  ncalls,         \* API calls and keys issued so far (bounded by MaxCalls)
  nextId,         \* component instances created so far
  tornDown,       \* ids of instances whose unmount has completed
  owed,           \* a render was requested while running and mounted
  renderCount,    \* render() calls on the instance mounted on the host
  obs,            \* what the last step did: events emitted, render() calls, paints
  lastResult,     \* the call the last step settled, NoResult when none
  mounted,        \* component.mounted
  dirty,          \* component.dirty
  state,          \* component.state.x (0 when unset)
  nextTicks,      \* queued process.nextTick callbacks of scheduleUpdate
  phase,          \* "task": user code runs; "ticks": the nextTick queue drains
  taskCalls,      \* component methods called in the current task
  requests,       \* setState/forceUpdate calls on the mounted component this task
  steady,         \* mounted when the task began, no mount()/unmount() since
  passes,         \* update() passes since the task began
  renders,        \* render() calls since the task began
  lastRender,     \* the state the last render() call has seen
  used,           \* the component has been mounted and unmounted again
  config,         \* renderer.config: fullscreen, width, height
  isInitialized,  \* renderer.isInitialized
  buffer,         \* renderer.buffer: the lines of the frame being painted
  previousBuffer, \* renderer.previousBuffer: the lines of the last frame
  display,        \* the terminal display: the text each row shows
  cursorRow,      \* the terminal cursor's row, 0-based
  origin,         \* the display row line 0 of the frame belongs on
  writes,         \* process.stdout.write calls of the last Renderer call
  lastOp,         \* the last Renderer call: initialize, render or resize
  focusedComponent, \* tree.focusedComponent: NoFocus or a component
  focused,        \* component.focused of each component
  hooks,          \* whether the component defines handleFocus / handleBlur
  onInput,        \* how each component answers handleInput
  focusLog,       \* what the last setFocus() did, in order
  stdin,          \* chunks read from the terminal, 'data' event not yet run
  arrivals,       \* chunks that have arrived so far
  emitted,        \* events the last handleData() emitted
  dispatched,     \* components whose handleInput ran for the last key, in order
  consumed,       \* what tree.handleInput returned for the last key
  handledNo,      \* arrival number of the chunk handleData() ran for last
  nodes,          \* the LayoutNode objects: x, y, width, height, parent, children, style
  layoutCalls,    \* Layout.calculate calls so far
  layoutOp,       \* the last call on the layout tree
  instances,      \* instance.mounted of each component of the tree
  throwing,       \* the components whose render() throws
  lifecycle,      \* what the last mount() / unmount() call did, in order
  lifecycleCall,  \* the last mount() / unmount() call on an instance
  isActive,       \* inputManager.isActive of a manager used on its own
  mouseEnabled,   \* its config.mouse
  mouseTracking   \* terminal mouse reporting, as left by ESC[?1000h / l

hostVars == <<isRunning, componentTree, renderer, inputManager, renderTimer,
              isDirty, errorListener>>
loopVars == <<micro, waiting, immediates, exitCode>>
termVars == <<isTTY, rawMode, cursorHidden, dataListeners>>
ghostVars == <<ncalls, nextId, tornDown, owed, renderCount, obs, lastResult>>
compVars == <<mounted, dirty, state, nextTicks, phase, taskCalls, requests,
              steady, passes, renders, lastRender, used>>
hostState == <<hostVars, loopVars, termVars, ghostVars>>
screenVars == <<config, isInitialized, buffer, previousBuffer, display,
                cursorRow, origin, writes, lastOp>>
treeVars == <<focusedComponent, focused, hooks, onInput, focusLog, stdin,
              arrivals, emitted, dispatched, consumed, handledNo>>
layoutVars == <<nodes, layoutCalls, layoutOp>>
lifeVars == <<instances, throwing, lifecycle, lifecycleCall>>
inputVars == <<isActive, mouseEnabled, mouseTracking>>
outsideHost == <<compVars, screenVars, treeVars, layoutVars, lifeVars,
  inputVars>>
outsideComponent == <<hostState, screenVars, treeVars, layoutVars, lifeVars,
  inputVars>>
outsideRenderer == <<hostState, compVars, treeVars, layoutVars, lifeVars,
  inputVars>>
outsideTree == <<hostState, compVars, screenVars, layoutVars, lifeVars,
  inputVars>>
outsideLayout == <<hostState, compVars, screenVars, treeVars, lifeVars,
  inputVars>>
outsideLifecycle == <<hostState, compVars, screenVars, treeVars, layoutVars,
  inputVars>>
vars == <<hostState, compVars, screenVars, treeVars, layoutVars, lifeVars,
  inputVars>>

\* -------------------------------------------------------- components ----
\* Component definitions handed to mount(): plain objects with render() and
\* optional handleInput / cleanup, as in packages/core/tests/host.test.js.
Defs == {"plain", "static", "asyncHook", "badHook", "badRender"}

hasHandleInput(def) == def \in {"plain", "badRender"}
renderThrows(def) == def = "badRender"
\* the cleanup hook: absent, returning a value, returning a promise that
\* settles later, or throwing
cleanupHook(def) ==
  CASE def = "static" -> "sync"
    [] def = "asyncHook" -> "async"
    [] def = "badHook" -> "throws"
    [] OTHER -> "none"

NoComponent == [id |-> 0, def |-> "none"]
createComponentInstance(id, def) == [id |-> id, def |-> def]

NoResult == [op |-> "none", h |-> 0, res |-> "none"]
Result(op, h, res) == [op |-> op, h |-> h, res |-> res]
Call(op, h, pc) == [op |-> op, h |-> h, pc |-> pc]

Emit(h, ev) == [kind |-> "emit", h |-> h, name |-> ev, id |-> 0]
Rendered(h, c) == [kind |-> "render()", h |-> h, name |-> c.def, id |-> c.id]
Painted(h, what) == [kind |-> "paint", h |-> h, name |-> what, id |-> 0]

Alive == exitCode = "running"
Budget == ncalls < MaxCalls

Pending(h) == Len(SelectSeq(immediates, LAMBDA x : x = h))

\* ------------------------------------------------------------- state ----
\* FerroHost constructor (host.js 12-28), with the process and terminal as
\* they are before any host starts.
HostInit(A) ==
  /\ isRunning = [h \in Hosts |-> FALSE]
  /\ componentTree = [h \in Hosts |-> NoComponent]
  /\ renderer = [h \in Hosts |-> "null"]
  /\ inputManager = [h \in Hosts |-> "null"]
  /\ renderTimer = [h \in Hosts |-> "null"]
  /\ isDirty = [h \in Hosts |-> FALSE]
  /\ errorListener \in {f \in [Hosts -> BOOLEAN] : \A h \in Hosts \ A : f[h]}
  /\ micro = <<>>
  /\ waiting = <<>>
  /\ immediates = <<>>
  /\ exitCode = "running"
  /\ isTTY \in BOOLEAN
  /\ rawMode = FALSE
  /\ cursorHidden = FALSE
  /\ dataListeners = 0
  /\ ncalls = 0
  /\ nextId = 0
  /\ tornDown = {}
  /\ owed = [h \in Hosts |-> FALSE]
  /\ renderCount = [h \in Hosts |-> 0]
  /\ obs = <<>>
  /\ lastResult = NoResult

\* ------------------------------------------- Renderer, InputManager ----
\* Renderer.initialize() on a fresh Renderer: hides the cursor.
Renderer_initialize(h) ==
  /\ renderer' = [renderer EXCEPT ![h] = "initialized"]
  /\ cursorHidden' = TRUE

\* Renderer.cleanup(): no-op unless initialized; shows the cursor again.
Renderer_cleanup(h) ==
  IF renderer[h] = "initialized"
  THEN /\ renderer' = [renderer EXCEPT ![h] = "cleaned"]
       /\ cursorHidden' = FALSE
  ELSE UNCHANGED <<renderer, cursorHidden>>

\* Renderer.render(content): paints only while initialized.
Renderer_render(h, what) ==
  IF renderer[h] = "initialized" THEN <<Painted(h, what)>> ELSE <<>>

\* InputManager.start() on a fresh manager: raw mode on a TTY, 'data' listener.
InputManager_start ==
  /\ rawMode' = IF isTTY THEN TRUE ELSE rawMode
  /\ dataListeners' = dataListeners + 1

\* InputManager.stop() on an active manager.
InputManager_stop ==
  /\ rawMode' = IF isTTY THEN FALSE ELSE rawMode
  /\ dataListeners' = dataListeners - 1

\* --------------------------------------------------- render scheduling ----
\* scheduleRender() without the isDirty check: every request queues a callback.
scheduleRender_everyRequest(h) ==
  /\ IF ~isRunning[h]
     THEN UNCHANGED <<isDirty, renderTimer, immediates>>
     ELSE /\ isDirty' = [isDirty EXCEPT ![h] = TRUE]
          /\ renderTimer' = [renderTimer EXCEPT ![h] = "immediate"]
          /\ immediates' = Append(immediates, h)
  /\ owed' = [owed EXCEPT ![h] =
                @ \/ (isRunning[h] /\ componentTree'[h] # NoComponent)]

\* FerroHost.scheduleRender(): one setImmediate callback per dirty period.
\* owed records a request made while the host runs with a component mounted.
scheduleRender(h) ==
  /\ IF isDirty[h] \/ ~isRunning[h]
     THEN UNCHANGED <<isDirty, renderTimer, immediates>>
     ELSE /\ isDirty' = [isDirty EXCEPT ![h] = TRUE]
          /\ renderTimer' = [renderTimer EXCEPT ![h] = "immediate"]
          /\ immediates' = Append(immediates, h)
  /\ owed' = [owed EXCEPT ![h] =
                @ \/ (isRunning[h] /\ componentTree'[h] # NoComponent)]

\* FerroHost.render(): the component's render() inside try/catch.  The catch
\* block emits 'error'; EventEmitter.emit('error') with no listener throws
\* the error again, out of render() and out of the setImmediate callback,
\* and the process dies of the uncaught exception.
render(h) ==
  IF componentTree[h] = NoComponent \/ renderer[h] = "null"
  THEN /\ obs' = <<>>
       /\ UNCHANGED <<exitCode, renderCount>>
  ELSE /\ renderCount' = [renderCount EXCEPT ![h] = @ + 1]
       /\ IF renderThrows(componentTree[h].def)
          THEN IF errorListener[h]
               THEN /\ \E production \in BOOLEAN :
                         obs' = <<Rendered(h, componentTree[h]), Emit(h, "error")>>
                                \o (IF production THEN <<>>
                                    ELSE Renderer_render(h, "error"))
                    /\ UNCHANGED exitCode
               ELSE /\ obs' = <<Rendered(h, componentTree[h])>>
                    /\ exitCode' = "uncaught"
          ELSE /\ obs' = <<Rendered(h, componentTree[h])>>
                         \o Renderer_render(h, "output")
                         \o <<Emit(h, "render")>>
               /\ UNCHANGED exitCode

\* The setImmediate callback of scheduleRender (host.js 191-195).
renderCallback ==
  /\ Alive /\ micro = <<>> /\ immediates # <<>>
  /\ LET h == Head(immediates) IN
       /\ immediates' = Tail(immediates)
       /\ render(h)
       /\ IF exitCode' = "running"
          THEN /\ isDirty' = [isDirty EXCEPT ![h] = FALSE]
               /\ renderTimer' = [renderTimer EXCEPT ![h] = "null"]
          ELSE UNCHANGED <<isDirty, renderTimer>>
       /\ owed' = [owed EXCEPT ![h] = FALSE]
  /\ lastResult' = NoResult
  /\ UNCHANGED <<isRunning, componentTree, renderer, inputManager, errorListener,
                 micro, waiting, termVars, ncalls, nextId, tornDown>>
  /\ UNCHANGED outsideHost

\* FerroHost.update()
update(h) ==
  /\ Alive /\ Budget
  /\ ncalls' = ncalls + 1
  /\ UNCHANGED componentTree
  /\ scheduleRender(h)
  /\ obs' = <<Emit(h, "update")>>
  /\ lastResult' = Result("update", h, "ok")
  /\ UNCHANGED <<isRunning, renderer, inputManager, errorListener,
                 micro, waiting, exitCode, termVars, nextId, tornDown, renderCount>>
  /\ UNCHANGED outsideHost

\* ------------------------------------------------------ mount / start ----
\* FerroHost.start() up to `await this.renderer.initialize()`.
start(h) == Renderer_initialize(h)

\* mount() without the 'already mounted' check: the new component replaces
\* the mounted one.
mount_overwrites(h, def) ==
  /\ Alive /\ Budget
  /\ ncalls' = ncalls + 1
  /\ componentTree' = [componentTree EXCEPT
                         ![h] = createComponentInstance(nextId + 1, def)]
  /\ nextId' = nextId + 1
  /\ renderCount' = [renderCount EXCEPT ![h] = 0]
  /\ IF ~isRunning[h]
     THEN /\ start(h)
          /\ micro' = Append(micro, Call("mount", h, "start_initialize"))
          /\ obs' = <<>>
          /\ lastResult' = NoResult
          /\ UNCHANGED <<isDirty, renderTimer, immediates, owed>>
     ELSE /\ scheduleRender(h)
          /\ obs' = <<Emit(h, "mount")>>
          /\ lastResult' = Result("mount", h, "ok")
          /\ UNCHANGED <<renderer, cursorHidden, micro>>
  /\ UNCHANGED <<isRunning, inputManager, errorListener, waiting, exitCode,
                 isTTY, rawMode, dataListeners, tornDown>>
  /\ UNCHANGED outsideHost

\* FerroHost.mount() up to its first await (or to its end when the host is
\* already running).
mount(h, def) ==
  /\ Alive /\ Budget
  /\ ncalls' = ncalls + 1
  /\ IF componentTree[h] # NoComponent
     THEN /\ lastResult' = Result("mount", h, "MountConflict")
          /\ obs' = <<>>
          /\ UNCHANGED <<hostVars, loopVars, termVars, nextId, tornDown, owed,
                         renderCount>>
     ELSE /\ componentTree' = [componentTree EXCEPT
                                 ![h] = createComponentInstance(nextId + 1, def)]
          /\ nextId' = nextId + 1
          /\ renderCount' = [renderCount EXCEPT ![h] = 0]
          /\ IF ~isRunning[h]
             THEN /\ start(h)
                  /\ micro' = Append(micro, Call("mount", h, "start_initialize"))
                  /\ obs' = <<>>
                  /\ lastResult' = NoResult
                  /\ UNCHANGED <<isDirty, renderTimer, immediates, owed>>
             ELSE /\ scheduleRender(h)
                  /\ obs' = <<Emit(h, "mount")>>
                  /\ lastResult' = Result("mount", h, "ok")
                  /\ UNCHANGED <<renderer, cursorHidden, micro>>
          /\ UNCHANGED <<isRunning, inputManager, errorListener, waiting, exitCode,
                         isTTY, rawMode, dataListeners, tornDown>>
  /\ UNCHANGED outsideHost

\* FerroHost.start() after `await this.renderer.initialize()`: the input
\* manager is created and started, the host is running.
start_afterInitialize ==
  /\ Alive /\ micro # <<>> /\ Head(micro).pc = "start_initialize"
  /\ LET h == Head(micro).h IN
       /\ inputManager' = [inputManager EXCEPT ![h] = "active"]
       /\ InputManager_start
       /\ isRunning' = [isRunning EXCEPT ![h] = TRUE]
       /\ obs' = <<Emit(h, "start")>>
       /\ micro' = Append(Tail(micro), Call("mount", h, "mount_start"))
  /\ lastResult' = NoResult
  /\ UNCHANGED <<componentTree, renderer, renderTimer, isDirty, errorListener,
                 waiting, immediates, exitCode, isTTY, cursorHidden,
                 ncalls, nextId, tornDown, owed, renderCount>>
  /\ UNCHANGED outsideHost

\* FerroHost.mount() after `await this.start()`.
mount_afterStart ==
  /\ Alive /\ micro # <<>> /\ Head(micro).pc = "mount_start"
  /\ LET h == Head(micro).h IN
       /\ UNCHANGED componentTree
       /\ scheduleRender(h)
       /\ obs' = <<Emit(h, "mount")>>
       /\ lastResult' = Result("mount", h, "ok")
  /\ micro' = Tail(micro)
  /\ UNCHANGED <<isRunning, renderer, inputManager, errorListener,
                 waiting, exitCode, termVars, ncalls, nextId, tornDown, renderCount>>
  /\ UNCHANGED outsideHost

\* FerroHost.mount(component) with a component that is neither a function
\* nor an object: after the 'already mounted' check, createComponentInstance
\* throws before componentTree is assigned (host.js 34-39, 156-158).
mount_invalid(h) ==
  /\ Alive /\ Budget
  /\ ncalls' = ncalls + 1
  /\ lastResult' = Result("mount", h,
                          IF componentTree[h] # NoComponent
                          THEN "MountConflict" ELSE "Invalid component type")
  /\ obs' = <<>>
  /\ UNCHANGED <<hostVars, loopVars, termVars, nextId, tornDown, owed,
                 renderCount>>
  /\ UNCHANGED outsideHost

\* FerroHost.start() after `await this.renderer.initialize()` when
\* InputManager.start() throws from process.stdin.setRawMode(true)
\* (input.js 38-40): the manager is created and not active, start() rejects
\* and mount(), awaiting it, rejects with the same error (host.js 42-44).
start_afterInitialize_throws ==
  /\ Alive /\ micro # <<>> /\ Head(micro).pc = "start_initialize"
  /\ isTTY
  /\ LET h == Head(micro).h IN
       /\ inputManager' = [inputManager EXCEPT ![h] = "created"]
       /\ lastResult' = Result("mount", h, "setRawMode failed")
  /\ obs' = <<>>
  /\ micro' = Tail(micro)
  /\ UNCHANGED <<isRunning, componentTree, renderer, renderTimer, isDirty,
                 errorListener, waiting, immediates, exitCode, termVars,
                 ncalls, nextId, tornDown, owed, renderCount>>
  /\ UNCHANGED outsideHost

\* ------------------------------------------------------------ unmount ----
\* `this.componentTree = null; this.emit('unmount')` (host.js 65-66).
unmount_finish(h) ==
  /\ componentTree' = [componentTree EXCEPT ![h] = NoComponent]
  /\ tornDown' = IF componentTree[h] = NoComponent THEN tornDown
                 ELSE tornDown \cup {componentTree[h].id}

\* How far unmount() gets synchronously: nothing mounted, finished (no hook),
\* awaiting the hook's value, awaiting the hook's pending promise, or the
\* hook threw.
unmount_outcome(h) ==
  IF componentTree[h] = NoComponent THEN "noop"
  ELSE CASE cleanupHook(componentTree[h].def) = "none" -> "done"
         [] cleanupHook(componentTree[h].def) = "sync" -> "tick"
         [] cleanupHook(componentTree[h].def) = "async" -> "pending"
         [] OTHER -> "throws"

\* FerroHost.unmount() up to `await this.componentTree.cleanup()`.
unmount(h) ==
  /\ Alive /\ Budget
  /\ ncalls' = ncalls + 1
  /\ LET o == unmount_outcome(h) IN
       /\ IF o = "done" THEN unmount_finish(h)
                        ELSE UNCHANGED <<componentTree, tornDown>>
       /\ micro' = IF o = "tick"
                   THEN Append(micro, Call("unmount", h, "unmount_hook"))
                   ELSE micro
       /\ waiting' = IF o = "pending"
                     THEN Append(waiting, Call("unmount", h, "unmount_hook"))
                     ELSE waiting
       /\ obs' = IF o = "done" THEN <<Emit(h, "unmount")>> ELSE <<>>
       /\ lastResult' = CASE o \in {"noop", "done"} -> Result("unmount", h, "ok")
                          [] o = "throws" -> Result("unmount", h, "rejected")
                          [] OTHER -> NoResult
  /\ UNCHANGED <<isRunning, renderer, inputManager, renderTimer, isDirty,
                 errorListener, immediates, exitCode, termVars,
                 nextId, owed, renderCount>>
  /\ UNCHANGED outsideHost

\* The promise returned by an asynchronous cleanup hook resolves.
hookSettles ==
  /\ Alive
  /\ \E i \in 1..Len(waiting) :
       /\ micro' = Append(micro, waiting[i])
       /\ waiting' = SubSeq(waiting, 1, i - 1) \o SubSeq(waiting, i + 1, Len(waiting))
  /\ obs' = <<>>
  /\ lastResult' = NoResult
  /\ UNCHANGED <<hostVars, immediates, exitCode, termVars,
                 ncalls, nextId, tornDown, owed, renderCount>>
  /\ UNCHANGED outsideHost

\* FerroHost.unmount() after the await, called directly or from cleanup().
unmount_afterHook ==
  /\ Alive /\ micro # <<>> /\ Head(micro).pc = "unmount_hook"
  /\ LET h == Head(micro).h
         op == Head(micro).op IN
       /\ unmount_finish(h)
       /\ obs' = <<Emit(h, "unmount")>>
       /\ IF op = "cleanup"
          THEN /\ micro' = Append(Tail(micro), Call("cleanup", h, "cleanup_unmount"))
               /\ lastResult' = NoResult
          ELSE /\ micro' = Tail(micro)
               /\ lastResult' = Result("unmount", h, "ok")
  /\ UNCHANGED <<isRunning, renderer, inputManager, renderTimer, isDirty,
                 errorListener, waiting, immediates, exitCode, termVars,
                 ncalls, nextId, owed, renderCount>>
  /\ UNCHANGED outsideHost

\* ------------------------------------------------------------ cleanup ----
\* FerroHost.cleanup() up to `await this.unmount()`.  clearTimeout() is
\* handed the Immediate that setImmediate returned; Node's clearTimeout only
\* cancels Timeout objects, so the callback stays queued.
cleanup_sync(h) ==
  IF ~isRunning[h]
  THEN /\ lastResult' = Result("cleanup", h, "ok")
       /\ obs' = <<>>
       /\ UNCHANGED <<renderTimer, componentTree, tornDown, micro, waiting>>
  ELSE LET o == unmount_outcome(h) IN
       /\ renderTimer' = [renderTimer EXCEPT ![h] = "null"]
       /\ IF o = "done" THEN unmount_finish(h)
                        ELSE UNCHANGED <<componentTree, tornDown>>
       /\ micro' = CASE o \in {"noop", "done"} ->
                          Append(micro, Call("cleanup", h, "cleanup_unmount"))
                     [] o = "tick" ->
                          Append(micro, Call("cleanup", h, "unmount_hook"))
                     [] o = "throws" ->
                          Append(micro, Call("cleanup", h, "cleanup_unmountFailed"))
                     [] OTHER -> micro
       /\ waiting' = IF o = "pending"
                     THEN Append(waiting, Call("cleanup", h, "unmount_hook"))
                     ELSE waiting
       /\ obs' = IF o = "done" THEN <<Emit(h, "unmount")>> ELSE <<>>
       /\ lastResult' = NoResult

cleanup(h) ==
  /\ Alive /\ Budget
  /\ ncalls' = ncalls + 1
  /\ cleanup_sync(h)
  /\ UNCHANGED <<isRunning, renderer, inputManager, isDirty, errorListener,
                 immediates, exitCode, termVars, nextId, owed, renderCount>>
  /\ UNCHANGED outsideHost

\* cleanup() after `await this.unmount()` threw: the call rejects and the
\* rest of cleanup() does not run.
cleanup_afterUnmountFailed ==
  /\ Alive /\ micro # <<>> /\ Head(micro).pc = "cleanup_unmountFailed"
  /\ micro' = Tail(micro)
  /\ obs' = <<>>
  /\ lastResult' = Result("cleanup", Head(micro).h, "rejected")
  /\ UNCHANGED <<hostVars, waiting, immediates, exitCode, termVars,
                 ncalls, nextId, tornDown, owed, renderCount>>
  /\ UNCHANGED outsideHost

\* cleanup() after `await this.unmount()`: stop input, clean the renderer up.
cleanup_afterUnmount ==
  /\ Alive /\ micro # <<>> /\ Head(micro).pc = "cleanup_unmount"
  /\ LET h == Head(micro).h IN
       /\ IF inputManager[h] = "active"
          THEN /\ InputManager_stop
               /\ inputManager' = [inputManager EXCEPT ![h] = "null"]
          ELSE /\ inputManager' = [inputManager EXCEPT ![h] = "null"]
               /\ UNCHANGED <<rawMode, dataListeners>>
       /\ IF renderer[h] # "null"
          THEN /\ Renderer_cleanup(h)
               /\ micro' = Append(Tail(micro), Call("cleanup", h, "cleanup_renderer"))
               /\ obs' = <<>>
               /\ lastResult' = NoResult
               /\ UNCHANGED isRunning
          ELSE /\ isRunning' = [isRunning EXCEPT ![h] = FALSE]
               /\ micro' = Tail(micro)
               /\ obs' = <<Emit(h, "cleanup")>>
               /\ lastResult' = Result("cleanup", h, "ok")
               /\ UNCHANGED <<renderer, cursorHidden>>
  /\ UNCHANGED <<componentTree, renderTimer, isDirty, errorListener, waiting,
                 immediates, exitCode, isTTY, ncalls, nextId, tornDown, owed,
                 renderCount>>
  /\ UNCHANGED outsideHost

\* cleanup() after `await this.renderer.cleanup()`.
cleanup_afterRenderer ==
  /\ Alive /\ micro # <<>> /\ Head(micro).pc = "cleanup_renderer"
  /\ LET h == Head(micro).h IN
       /\ renderer' = [renderer EXCEPT ![h] = "null"]
       /\ isRunning' = [isRunning EXCEPT ![h] = FALSE]
       /\ obs' = <<Emit(h, "cleanup")>>
       /\ lastResult' = Result("cleanup", h, "ok")
  /\ micro' = Tail(micro)
  /\ UNCHANGED <<componentTree, inputManager, renderTimer, isDirty, errorListener,
                 waiting, immediates, exitCode, termVars,
                 ncalls, nextId, tornDown, owed, renderCount>>
  /\ UNCHANGED outsideHost

\* -------------------------------------------------------------- input ----
Keys == {"ctrl-c", "a"}

\* FerroHost.handleInput(key), called from the input manager's 'keypress'
\* event for a chunk read from stdin.
handleInput(h, key) ==
  /\ Alive /\ Budget /\ micro = <<>>
  /\ inputManager[h] = "active"
  /\ ncalls' = ncalls + 1
  /\ IF key = "ctrl-c"
     THEN /\ cleanup_sync(h)
          /\ exitCode' = "exit0"
          /\ UNCHANGED <<isDirty, immediates, owed>>
     ELSE /\ UNCHANGED <<componentTree, tornDown, micro, waiting, exitCode>>
          /\ IF componentTree[h] # NoComponent /\ hasHandleInput(componentTree[h].def)
             THEN scheduleRender(h)
             ELSE UNCHANGED <<isDirty, renderTimer, immediates, owed>>
          /\ obs' = <<Emit(h, "input")>>
          /\ lastResult' = NoResult
  /\ UNCHANGED <<isRunning, renderer, inputManager, errorListener, termVars,
                 nextId, renderCount>>
  /\ UNCHANGED outsideHost

\* ---------------------------------------------------------- Component ----
\* A Component (component.js) with no children.  process.nextTick callbacks
\* run after the synchronous code of the current task has finished, before
\* anything else.
ComponentInit ==
  /\ mounted = FALSE
  /\ dirty = FALSE
  /\ state = 0
  /\ nextTicks = 0
  /\ phase = "task"
  /\ taskCalls = 0
  /\ requests = 0
  /\ steady = FALSE
  /\ passes = 0
  /\ renders = 0
  /\ lastRender = 0
  /\ used = FALSE

InTask == phase = "task" /\ taskCalls < MaxTaskCalls

\* Component.scheduleUpdate(): one nextTick callback per call.
scheduleUpdate == nextTicks' = nextTicks + 1

\* Component.setState(updates), updates an object or a function of the state.
setState(v) ==
  /\ InTask
  /\ taskCalls' = taskCalls + 1
  /\ state' = v
  /\ dirty' = TRUE
  /\ IF mounted
     THEN scheduleUpdate /\ requests' = requests + 1
     ELSE UNCHANGED <<nextTicks, requests>>
  /\ UNCHANGED <<mounted, phase, steady, passes, renders, lastRender>>
  /\ UNCHANGED used
  /\ UNCHANGED outsideComponent

\* Component.forceUpdate()
forceUpdate ==
  /\ InTask
  /\ taskCalls' = taskCalls + 1
  /\ dirty' = TRUE
  /\ IF mounted
     THEN scheduleUpdate /\ requests' = requests + 1
     ELSE UNCHANGED <<nextTicks, requests>>
  /\ UNCHANGED <<mounted, state, phase, steady, passes, renders, lastRender>>
  /\ UNCHANGED used
  /\ UNCHANGED outsideComponent

\* Component.update(): beforeUpdate, render(), update, afterUpdate.
Component_update ==
  /\ passes' = passes + 1
  /\ renders' = renders + 1
  /\ lastRender' = state

\* The callback without the mounted check: an unmounted component updates.
scheduleUpdate_callback_ignoresMounted ==
  /\ phase = "ticks" /\ nextTicks > 0
  /\ nextTicks' = nextTicks - 1
  /\ IF dirty
     THEN Component_update /\ dirty' = FALSE
     ELSE UNCHANGED <<passes, renders, lastRender, dirty>>
  /\ UNCHANGED <<mounted, state, phase, taskCalls, requests, steady>>
  /\ UNCHANGED used
  /\ UNCHANGED outsideComponent

\* The callback without the dirty check: every queued callback updates.
scheduleUpdate_callback_everyCall ==
  /\ phase = "ticks" /\ nextTicks > 0
  /\ nextTicks' = nextTicks - 1
  /\ IF mounted
     THEN Component_update /\ dirty' = FALSE
     ELSE UNCHANGED <<passes, renders, lastRender, dirty>>
  /\ UNCHANGED <<mounted, state, phase, taskCalls, requests, steady>>
  /\ UNCHANGED used
  /\ UNCHANGED outsideComponent

\* The nextTick callback of scheduleUpdate (component.js 63-68).
scheduleUpdate_callback ==
  /\ phase = "ticks" /\ nextTicks > 0
  /\ nextTicks' = nextTicks - 1
  /\ IF dirty /\ mounted
     THEN Component_update /\ dirty' = FALSE
     ELSE UNCHANGED <<passes, renders, lastRender, dirty>>
  /\ UNCHANGED <<mounted, state, phase, taskCalls, requests, steady>>
  /\ UNCHANGED used
  /\ UNCHANGED outsideComponent

\* Component.mount(): no-op when mounted, else the first render().
Component_mount ==
  /\ InTask
  /\ taskCalls' = taskCalls + 1
  /\ IF mounted
     THEN UNCHANGED <<mounted, renders, lastRender, steady>>
     ELSE /\ mounted' = TRUE
          /\ renders' = renders + 1
          /\ lastRender' = state
          /\ steady' = FALSE
  /\ UNCHANGED <<dirty, state, nextTicks, phase, requests, passes>>
  /\ UNCHANGED used
  /\ UNCHANGED outsideComponent

\* Component.unmount(): no-op when not mounted.
Component_unmount ==
  /\ InTask
  /\ taskCalls' = taskCalls + 1
  /\ IF mounted
     THEN mounted' = FALSE /\ steady' = FALSE /\ used' = TRUE
     ELSE UNCHANGED <<mounted, steady, used>>
  /\ UNCHANGED <<dirty, state, nextTicks, phase, requests, passes, renders,
                 lastRender>>
  /\ UNCHANGED outsideComponent

\* The synchronous code of the task returns: the nextTick queue drains.
taskEnds ==
  /\ phase = "task"
  /\ phase' = "ticks"
  /\ UNCHANGED <<mounted, dirty, state, nextTicks, taskCalls, requests, steady,
                 passes, renders, lastRender>>
  /\ UNCHANGED used
  /\ UNCHANGED outsideComponent

\* The queue is empty: the next task (timer, I/O callback) begins.
taskBegins ==
  /\ phase = "ticks" /\ nextTicks = 0
  /\ phase' = "task"
  /\ taskCalls' = 0
  /\ requests' = 0
  /\ passes' = 0
  /\ renders' = 0
  /\ steady' = mounted
  /\ UNCHANGED <<mounted, dirty, state, nextTicks, lastRender>>
  /\ UNCHANGED used
  /\ UNCHANGED outsideComponent

\* the events Component.update() emits around render() (component.js 75-81)
UpdateEvents == {"beforeUpdate", "update", "afterUpdate"}

\* The nextTick callback of scheduleUpdate when a listener of one of the
\* update events calls setState(v): the render of this update() shows v only
\* if the listener ran before it, setState() queues one more callback, and
\* the callback clears dirty once update() has returned (component.js 65-66).
scheduleUpdate_callback_setState(event, v) ==
  /\ phase = "ticks" /\ nextTicks > 0
  /\ dirty /\ mounted
  /\ passes' = passes + 1
  /\ renders' = renders + 1
  /\ lastRender' = IF event = "beforeUpdate" THEN v ELSE state
  /\ state' = v
  /\ requests' = requests + 1
  /\ nextTicks' = (nextTicks - 1) + 1
  /\ dirty' = FALSE
  /\ UNCHANGED <<mounted, phase, taskCalls, steady>>
  /\ UNCHANGED used
  /\ UNCHANGED outsideComponent

ComponentNext ==
  \/ \E v \in StateValues : setState(v)
  \/ forceUpdate
  \/ Component_mount
  \/ Component_unmount
  \/ scheduleUpdate_callback
  \/ taskEnds
  \/ taskBegins

\* ----------------------------------------------------------- Renderer ----
\* Renderer (renderer.js) writing to a terminal.  A frame is the sequence of
\* lines content.split('\n') yields; a line is a sequence of character
\* codes.  The terminal has config.height rows and config.width columns (the
\* constructor and the resize handler read both from process.stdout), shows
\* one text per row, and obeys the escape sequences the renderer writes:
\* ESC[y;xH clamps the row to the last one, ESC[2K blanks the cursor's row,
\* text overwrites the row from column 0, and a line feed on the last row
\* scrolls the display up by one row.
Min(a, b) == IF a < b THEN a ELSE b
Max(a, b) == IF a > b THEN a ELSE b

Blank == <<>>
LineSet == {<<>>, <<1>>, <<1, 2, 1>>}
Contents == UNION {[1..n -> LineSet] : n \in 1..MaxLines}
Sizes == [width : {2, 3}, height : {2, 3}]
Configs == [fullscreen : BOOLEAN, width : {2, 3}, height : {2, 3}]
DefaultConfig == [fullscreen |-> FALSE, width |-> 3, height |-> 3]

\* rows counted from the line the frame starts on; a frame scrolled further
\* up than this is off the display altogether
OffScreen == 0 - MaxLines

\* one process.stdout.write call of the renderer: the line index it is for
\* (-1 for none) and the display row it acts on
Write(kind, index, row) == [kind |-> kind, index |-> index, row |-> row]

Terminal(disp, row, org) ==
  [display |-> disp, row |-> row, origin |-> org, writes |-> <<>>]

\* utils/ansi.js moveCursor(0, y), as the terminal obeys it
moveCursor(t, y) ==
  LET row == Min(y, Len(t.display) - 1) IN
  [t EXCEPT !.row = row, !.writes = Append(@, Write("cursor", y, row))]

\* '\x1b[2K'
eraseLine(t, i) ==
  [t EXCEPT !.display[t.row + 1] = Blank,
            !.writes = Append(@, Write("erase", i, t.row))]

\* line.slice(0, this.config.width)
slice(line, width) == SubSeq(line, 1, Min(Len(line), width))

writeText(t, text, i) ==
  [t EXCEPT !.display[t.row + 1] = text,
            !.writes = Append(@, Write("text", i, t.row))]

\* '\n'
lineFeed(t) ==
  IF t.row = Len(t.display) - 1
  THEN [t EXCEPT !.display = Tail(@) \o <<Blank>>,
                 !.origin = Max(@ - 1, OffScreen),
                 !.writes = Append(@, Write("feed", -1, t.row))]
  ELSE [t EXCEPT !.row = @ + 1,
                 !.writes = Append(@, Write("feed", -1, t.row))]

\* '\x1b[2J'
clearScreen(t) ==
  [t EXCEPT !.display = [r \in DOMAIN t.display |-> Blank],
            !.writes = Append(@, Write("clear", -1, t.row))]

\* performRender(), the body of the first loop for line index i (0-based)
paintLine(t, i, cfg, buf, prev, maxLines) ==
  IF i < Len(prev) /\ buf[i + 1] = prev[i + 1]
  THEN t
  ELSE LET t1 == IF cfg.fullscreen THEN moveCursor(t, i) ELSE t
           t2 == eraseLine(t1, i)
           t3 == writeText(t2, slice(buf[i + 1], cfg.width), i)
       IN IF ~cfg.fullscreen \/ i < maxLines - 1 THEN lineFeed(t3) ELSE t3

RECURSIVE paintLines(_, _, _, _, _, _)
paintLines(t, i, cfg, buf, prev, maxLines) ==
  IF i >= maxLines THEN t
  ELSE paintLines(paintLine(t, i, cfg, buf, prev, maxLines), i + 1,
                  cfg, buf, prev, maxLines)

\* performRender(), the second loop: lines the previous frame had and the
\* new one has not
RECURSIVE clearRemaining(_, _, _, _)
clearRemaining(t, i, cfg, last) ==
  IF i >= last THEN t
  ELSE clearRemaining(eraseLine(IF cfg.fullscreen THEN moveCursor(t, i) ELSE t,
                                i),
                      i + 1, cfg, last)

performRender(t, cfg, buf, prev) ==
  LET t0 == IF cfg.fullscreen THEN moveCursor(t, 0) ELSE t
      maxLines == Min(Len(buf), cfg.height)
      t1 == paintLines(t0, 0, cfg, buf, prev, maxLines)
  IN IF Len(prev) > Len(buf)
     THEN clearRemaining(t1, Len(buf), cfg, Len(prev))
     ELSE t1

\* Renderer constructor (renderer.js 10-21) in front of a blank terminal
RendererInit(configs) ==
  /\ config \in configs
  /\ isInitialized = FALSE
  /\ buffer = <<>>
  /\ previousBuffer = <<>>
  /\ display = [r \in 1..config.height |-> Blank]
  /\ cursorRow = 0
  /\ origin = 0
  /\ writes = <<>>
  /\ lastOp = "new"

Publish(t) ==
  /\ display' = t.display
  /\ cursorRow' = t.row
  /\ origin' = t.origin
  /\ writes' = t.writes

\* Renderer.initialize() (renderer.js 26-53)
initialize ==
  /\ ~isInitialized
  /\ LET t0 == Terminal(display, cursorRow, cursorRow)
         t1 == IF config.fullscreen THEN moveCursor(clearScreen(t0), 0)
               ELSE t0
     IN Publish([t1 EXCEPT !.origin = t1.row])
  /\ isInitialized' = TRUE
  /\ lastOp' = "initialize"
  /\ UNCHANGED <<config, buffer, previousBuffer>>
  /\ UNCHANGED outsideRenderer

\* Renderer.render(content) (renderer.js 102-120)
Renderer_render_content(content) ==
  /\ lastOp' = "render"
  /\ IF ~isInitialized
     THEN /\ writes' = <<>>
          /\ UNCHANGED <<buffer, previousBuffer, display, cursorRow, origin>>
     ELSE /\ buffer' = content
          /\ Publish(performRender(Terminal(display, cursorRow, origin),
                                   config, content, previousBuffer))
          /\ previousBuffer' = content
  /\ UNCHANGED <<config, isInitialized>>
  /\ UNCHANGED outsideRenderer

\* Renderer.clear() (renderer.js 235-243)
clear(t) == clearScreen(t)

\* the 'resize' handler installed by initialize() (renderer.js 44-48): the
\* terminal has taken its new size, keeping the rows that still fit
handleResize(size) ==
  /\ isInitialized
  /\ size # [width |-> config.width, height |-> config.height]
  /\ config' = [config EXCEPT !.width = size.width, !.height = size.height]
  /\ LET resized == [r \in 1..size.height |->
                       IF r <= Len(display) THEN display[r] ELSE Blank]
         row == Min(cursorRow, size.height - 1)
     IN Publish([clear(Terminal(resized, row, row)) EXCEPT
                   !.origin = IF config.fullscreen THEN 0 ELSE row])
  /\ buffer' = <<>>
  /\ previousBuffer' = <<>>
  /\ lastOp' = "resize"
  /\ UNCHANGED isInitialized
  /\ UNCHANGED outsideRenderer

RendererNext ==
  \/ initialize
  \/ \E content \in Contents : Renderer_render_content(content)
  \/ \E size \in Sizes : handleResize(size)

\* ------------------------------------------------------ ComponentTree ----
\* A ComponentTree (component.js 201-403) over four Component instances:
\* the root 1 with children 2 and 3, and 4 a child of 2.
Comps == {1, 2, 3, 4}
Root == 1
NoFocus == 0
Children(c) ==
  CASE c = 1 -> <<2, 3>>
    [] c = 2 -> <<4>>
    [] OTHER -> <<>>

\* how a component answers handleInput(key): the base class method, or a
\* createComponent onInput option that returns true or returns false
InputHandlers == {"base", "consume", "ignore"}

\* ComponentTree constructor with freshly constructed components: nothing
\* focused, no input pending
TreeInit(hookChoices, handlerChoices) ==
  /\ focusedComponent = NoFocus
  /\ focused = [c \in Comps |-> FALSE]
  /\ hooks \in hookChoices
  /\ onInput \in handlerChoices
  /\ focusLog = <<>>
  /\ stdin = <<>>
  /\ arrivals = 0
  /\ emitted = <<>>
  /\ dispatched = <<>>
  /\ consumed = FALSE
  /\ handledNo = 0

NoHooks == {[c \in Comps |-> FALSE]}
BaseHandlers == {[c \in Comps |-> "base"]}

FocusStep(op, c) == [op |-> op, c |-> c]

\* setFocus without taking the flag from the previous holder
setFocus_keepsOld(component) ==
  /\ Alive
  /\ focusedComponent' = component
  /\ focused' = IF component # NoFocus
                THEN [focused EXCEPT ![component] = TRUE]
                ELSE focused
  /\ focusLog' =
       (IF focusedComponent # NoFocus /\ focusedComponent # component
             /\ hooks[focusedComponent]
        THEN <<FocusStep("handleBlur", focusedComponent)>>
        ELSE <<>>)
       \o (IF component # NoFocus
           THEN <<FocusStep("focused = true", component)>>
                \o (IF hooks[component]
                    THEN <<FocusStep("handleFocus", component)>>
                    ELSE <<>>)
           ELSE <<>>)
  /\ UNCHANGED <<hooks, onInput, stdin, arrivals, emitted, dispatched,
                 consumed, handledNo>>
  /\ UNCHANGED outsideTree

\* ComponentTree.setFocus(component), component an instance or null
setFocus(component) ==
  /\ Alive
  /\ focusedComponent' = component
  /\ LET blurred == IF focusedComponent # NoFocus
                        /\ focusedComponent # component
                    THEN [focused EXCEPT ![focusedComponent] = FALSE]
                    ELSE focused
     IN focused' = IF component # NoFocus
                   THEN [blurred EXCEPT ![component] = TRUE]
                   ELSE blurred
  /\ focusLog' =
       (IF focusedComponent # NoFocus /\ focusedComponent # component
        THEN <<FocusStep("focused = false", focusedComponent)>>
             \o (IF hooks[focusedComponent]
                 THEN <<FocusStep("handleBlur", focusedComponent)>>
                 ELSE <<>>)
        ELSE <<>>)
       \o (IF component # NoFocus
           THEN <<FocusStep("focused = true", component)>>
                \o (IF hooks[component]
                    THEN <<FocusStep("handleFocus", component)>>
                    ELSE <<>>)
           ELSE <<>>)
  /\ UNCHANGED <<hooks, onInput, stdin, arrivals, emitted, dispatched,
                 consumed, handledNo>>
  /\ UNCHANGED outsideTree

\* Component.handleInput(key) of component c (component.js 147-157), or the
\* onInput option of createComponent (component.js 189-194): the value it
\* returns and the handleInput calls made, in order
RECURSIVE Component_handleInput(_)
Component_handleInput(c) ==
  IF onInput[c] = "base"
  THEN LET kids == Children(c)
           hits == {i \in 1..Len(kids) : focused[kids[i]]}
       IN IF hits = {}
          THEN [result |-> FALSE, calls |-> <<c>>]
          ELSE LET first == CHOOSE i \in hits : \A j \in hits : i <= j
               IN [result |-> TRUE,
                   calls |-> <<c>> \o Component_handleInput(kids[first]).calls]
  ELSE [result |-> onInput[c] = "consume", calls |-> <<c>>]

\* ComponentTree.handleInput(key) (component.js 367-381)
ComponentTree_handleInput ==
  LET first == IF focusedComponent # NoFocus
               THEN Component_handleInput(focusedComponent)
               ELSE [result |-> FALSE, calls |-> <<>>]
  IN IF first.result
     THEN first
     ELSE LET second == Component_handleInput(Root)
          IN [result |-> second.result, calls |-> first.calls \o second.calls]

\* --------------------------------------------------------- InputManager ----
\* An input chunk is the string data.toString() gives, a sequence of
\* character codes.
ESC == 27
LeftBracket == 91
Tilde == 126
Semicolon == 59
LessThan == 60
UpperM == 77
LowerM == 109

NoName == [kind |-> "null", id |-> "", n |-> 0]
Named(id) == [kind |-> "name", id |-> id, n |-> 0]
CharName(code) == [kind |-> "char", id |-> "", n |-> code]
FunctionKey(n) == [kind |-> "f", id |-> "f", n |-> n]
NoCode == -1

startsWith(str, prefix) ==
  Len(str) >= Len(prefix) /\ SubSeq(str, 1, Len(prefix)) = prefix
endsWith(str, suffix) ==
  Len(str) >= Len(suffix)
    /\ SubSeq(str, Len(str) - Len(suffix) + 1, Len(str)) = suffix

IsDigit(ch) == ch \in 48..57

\* parseInt(digits, 10)
RECURSIVE parseInt(_)
parseInt(digits) ==
  IF digits = <<>> THEN 0
  ELSE 10 * parseInt(SubSeq(digits, 1, Len(digits) - 1))
       + (digits[Len(digits)] - 48)

\* (\d+) at position p of str: the index of the last digit of the longest
\* run of digits that begins at p, p - 1 when there is none
RECURSIVE digitsEnd(_, _)
digitsEnd(str, p) ==
  IF p <= Len(str) /\ IsDigit(str[p]) THEN digitsEnd(str, p + 1) ELSE p - 1

\* str.match(/\x1b\[(\d+)~/): the positions where the pattern matches
functionKeyMatches(str) ==
  {p \in 1..Len(str) :
     /\ p + 3 <= Len(str)
     /\ str[p] = ESC /\ str[p + 1] = LeftBracket
     /\ digitsEnd(str, p + 2) >= p + 2
     /\ digitsEnd(str, p + 2) < Len(str)
     /\ str[digitsEnd(str, p + 2) + 1] = Tilde}

toLowerCase(code) == IF code \in 65..90 THEN code + 32 ELSE code
toUpperCase(code) == IF code \in 97..122 THEN code - 32 ELSE code

Key(str, name, ctrl, meta, shift, code) ==
  [sequence |-> str, name |-> name, ctrl |-> ctrl, meta |-> meta,
   shift |-> shift, code |-> code]

\* InputManager.parseKey(data) (input.js 111-200)
parseKey(str) ==
  LET plain(name) == Key(str, name, FALSE, FALSE, FALSE, NoCode) IN
  IF str = <<3>> THEN Key(str, CharName(99), TRUE, FALSE, FALSE, NoCode)
  ELSE IF str = <<ESC>> THEN plain(Named("escape"))
  ELSE IF str = <<13>> \/ str = <<10>> THEN plain(Named("enter"))
  ELSE IF str = <<9>> THEN plain(Named("tab"))
  ELSE IF str = <<127>> \/ str = <<8>> THEN plain(Named("backspace"))
  ELSE IF str = <<ESC, LeftBracket, 65>> THEN plain(Named("up"))
  ELSE IF str = <<ESC, LeftBracket, 66>> THEN plain(Named("down"))
  ELSE IF str = <<ESC, LeftBracket, 67>> THEN plain(Named("right"))
  ELSE IF str = <<ESC, LeftBracket, 68>> THEN plain(Named("left"))
  ELSE IF str = <<ESC, LeftBracket, 72>> THEN plain(Named("home"))
  ELSE IF str = <<ESC, LeftBracket, 70>> THEN plain(Named("end"))
  ELSE IF str = <<ESC, LeftBracket, 53, Tilde>> THEN plain(Named("pageup"))
  ELSE IF str = <<ESC, LeftBracket, 54, Tilde>> THEN plain(Named("pagedown"))
  ELSE IF str = <<ESC, LeftBracket, 51, Tilde>> THEN plain(Named("delete"))
  ELSE IF startsWith(str, <<ESC, LeftBracket>>) /\ endsWith(str, <<Tilde>>)
  THEN IF functionKeyMatches(str) = {}
       THEN plain(NoName)
       ELSE LET p == CHOOSE q \in functionKeyMatches(str) :
                       \A r \in functionKeyMatches(str) : q <= r
                code == parseInt(SubSeq(str, p + 2, digitsEnd(str, p + 2)))
            IN IF code >= 11 /\ code <= 24
               THEN plain(FunctionKey(code - 10))
               ELSE plain(NoName)
  ELSE IF Len(str) = 1
  THEN LET code == str[1] IN
       IF code < 32
       THEN Key(str, CharName(toLowerCase(code + 64)), TRUE, FALSE, FALSE, code)
       ELSE Key(str, CharName(code), FALSE, FALSE,
                code = toUpperCase(code) /\ code # toLowerCase(code), code)
  ELSE IF startsWith(str, <<ESC>>)
  THEN IF Len(str) = 2
       THEN Key(str, CharName(str[2]), FALSE, TRUE, FALSE, NoCode)
       ELSE Key(str, NoName, FALSE, TRUE, FALSE, NoCode)
  ELSE plain(NoName)

Mouse(x, y, button, action, shift, meta, ctrl) ==
  [x |-> x, y |-> y, button |-> button, action |-> action, shift |-> shift,
   meta |-> meta, ctrl |-> ctrl]
NoMouse == Mouse(-1, -1, "null", "null", FALSE, FALSE, FALSE)

\* code & bit, bit a power of two
BitSet(code, bit) == (code \div bit) % 2 = 1

\* str.match(/\x1b\[<(\d+);(\d+);(\d+)([Mm])/): the positions where the
\* pattern matches
mouseMatches(str) ==
  {p \in 1..Len(str) :
     /\ p + 2 <= Len(str)
     /\ str[p] = ESC /\ str[p + 1] = LeftBracket /\ str[p + 2] = LessThan
     /\ LET b == digitsEnd(str, p + 3) IN
        /\ b >= p + 3 /\ b + 1 <= Len(str) /\ str[b + 1] = Semicolon
        /\ LET x == digitsEnd(str, b + 2) IN
           /\ x >= b + 2 /\ x + 1 <= Len(str) /\ str[x + 1] = Semicolon
           /\ LET y == digitsEnd(str, x + 2) IN
              /\ y >= x + 2 /\ y + 1 <= Len(str)
              /\ str[y + 1] \in {UpperM, LowerM}}

\* InputManager.parseMouse(data) (input.js 262-303)
parseMouse(str) ==
  IF mouseMatches(str) = {}
  THEN NoMouse
  ELSE LET p == CHOOSE q \in mouseMatches(str) :
                  \A r \in mouseMatches(str) : q <= r
           b == digitsEnd(str, p + 3)
           x == digitsEnd(str, b + 2)
           y == digitsEnd(str, x + 2)
           code == parseInt(SubSeq(str, p + 3, b))
           button == CASE code % 4 = 0 -> "left"
                       [] code % 4 = 1 -> "middle"
                       [] code % 4 = 2 -> "right"
                       [] OTHER -> "null"
       IN Mouse(parseInt(SubSeq(str, b + 2, x)) - 1,
                parseInt(SubSeq(str, x + 2, y)) - 1,
                IF BitSet(code, 64)
                THEN (IF BitSet(code, 1) THEN "down" ELSE "up")
                ELSE button,
                IF BitSet(code, 64) THEN "scroll"
                ELSE IF str[y + 1] = LowerM THEN "release" ELSE "press",
                BitSet(code, 4), BitSet(code, 8), BitSet(code, 16))

\* the decimal digits of n < 100
Digits(n) == IF n < 10 THEN <<48 + n>> ELSE <<48 + (n \div 10), 48 + (n % 10)>>

\* the chunk a terminal in SGR mouse mode (ESC[?1006h) sends
SGR(b, x, y, final) ==
  <<ESC, LeftBracket, LessThan>> \o Digits(b) \o <<Semicolon>> \o Digits(x)
    \o <<Semicolon>> \o Digits(y) \o <<final>>

MouseReports ==
  {[b |-> 0, x |-> 5, y |-> 3, final |-> UpperM],
   [b |-> 2, x |-> 1, y |-> 1, final |-> LowerM],
   [b |-> 20, x |-> 10, y |-> 1, final |-> UpperM],
   [b |-> 65, x |-> 2, y |-> 2, final |-> UpperM]}
MouseChunks == {SGR(m.b, m.x, m.y, m.final) : m \in MouseReports}

KeyChunks ==
  {<<3>>, <<13>>, <<97>>, <<65>>, <<1>>, <<26>>, <<ESC>>,
   <<ESC, LeftBracket, 65>>, <<ESC, LeftBracket, 66>>,
   <<ESC, LeftBracket, 67>>, <<ESC, LeftBracket, 68>>,
   <<ESC, LeftBracket, 72>>, <<ESC, LeftBracket, 70>>,
   <<ESC, LeftBracket, 53, Tilde>>, <<ESC, LeftBracket, 54, Tilde>>,
   <<ESC, LeftBracket, 51, Tilde>>, <<ESC, LeftBracket, 50, Tilde>>,
   <<ESC, LeftBracket, 49, 49, Tilde>>, <<ESC, LeftBracket, 49, 53, Tilde>>,
   <<ESC, LeftBracket, 50, 52, Tilde>>,
   <<ESC, 97>>}
OtherChunks == {<<97, 98>>, <<ESC, LeftBracket, 90>>}
Chunks == KeyChunks \cup OtherChunks \cup MouseChunks
PlainKeys == {<<97>>, <<13>>}

KeyPress(key) == [event |-> "keypress", key |-> key, mouse |-> NoMouse]
Arrival(no, chunk) == [no |-> no, chunk |-> chunk]

\* a chunk read from the terminal waits for its 'data' event
dataArrives(chunk) ==
  /\ Alive
  /\ arrivals < MaxKeys
  /\ arrivals' = arrivals + 1
  /\ stdin' = Append(stdin, Arrival(arrivals + 1, chunk))
  /\ UNCHANGED <<focusedComponent, focused, hooks, onInput, focusLog, emitted,
                 dispatched, consumed, handledNo>>
  /\ UNCHANGED outsideTree

\* InputManager.handleData(data) (input.js 94-106) with the 'keypress'
\* listener FerroHost.start() installs (host.js 89-91): handleInput() exits
\* on Ctrl+C and otherwise hands the key to the mounted tree.
handleData ==
  /\ Alive
  /\ stdin # <<>>
  /\ stdin' = Tail(stdin)
  /\ handledNo' = Head(stdin).no
  /\ LET key == parseKey(Head(stdin).chunk) IN
     /\ emitted' = <<KeyPress(key)>>
     /\ IF key.ctrl /\ key.name = CharName(99)
        THEN /\ exitCode' = "exit0"
             /\ dispatched' = <<>>
             /\ consumed' = FALSE
        ELSE /\ dispatched' = ComponentTree_handleInput.calls
             /\ consumed' = ComponentTree_handleInput.result
             /\ UNCHANGED exitCode
  /\ UNCHANGED <<focusedComponent, focused, hooks, onInput, focusLog, arrivals>>
  /\ UNCHANGED <<hostVars, micro, waiting, immediates, termVars, ghostVars,
                 compVars, screenVars, layoutVars, lifeVars, inputVars>>

\* An InputManager used on its own (input.js 10-89), in front of
\* process.stdin.  Constructor: not active, config.mouse as given.
InputInit(mouseChoices) ==
  /\ isActive = FALSE
  /\ mouseEnabled \in mouseChoices
  /\ mouseTracking = FALSE

\* start() without the isActive check: every call registers a listener
startInput_unguarded ==
  /\ Alive /\ Budget
  /\ ncalls' = ncalls + 1
  /\ InputManager_start
  /\ mouseTracking' = (mouseEnabled \/ mouseTracking)
  /\ isActive' = TRUE
  /\ obs' = <<Emit(0, "start")>>
  /\ lastResult' = Result("start", 0, IF isActive THEN "repeated" ELSE "ok")
  /\ emitted' = <<>>
  /\ UNCHANGED <<hostVars, loopVars, isTTY, cursorHidden, nextId, tornDown,
                 owed, renderCount, mouseEnabled>>
  /\ UNCHANGED <<focusedComponent, focused, hooks, onInput, focusLog, stdin,
                 arrivals, dispatched, consumed, handledNo>>
  /\ UNCHANGED <<compVars, screenVars, layoutVars, lifeVars>>

\* InputManager.start() (input.js 26-58)
startInput ==
  /\ Alive /\ Budget
  /\ ncalls' = ncalls + 1
  /\ IF isActive
     THEN /\ obs' = <<>>
          /\ UNCHANGED <<isActive, mouseTracking, rawMode, dataListeners>>
     ELSE /\ InputManager_start
          /\ mouseTracking' = (mouseEnabled \/ mouseTracking)
          /\ isActive' = TRUE
          /\ obs' = <<Emit(0, "start")>>
  /\ lastResult' = Result("start", 0, IF isActive THEN "repeated" ELSE "ok")
  /\ emitted' = <<>>
  /\ UNCHANGED <<hostVars, loopVars, isTTY, cursorHidden, nextId, tornDown,
                 owed, renderCount, mouseEnabled>>
  /\ UNCHANGED <<focusedComponent, focused, hooks, onInput, focusLog, stdin,
                 arrivals, dispatched, consumed, handledNo>>
  /\ UNCHANGED <<compVars, screenVars, layoutVars, lifeVars>>

\* InputManager.stop() (input.js 63-89)
stopInput ==
  /\ Alive /\ Budget
  /\ ncalls' = ncalls + 1
  /\ IF ~isActive
     THEN /\ obs' = <<>>
          /\ UNCHANGED <<isActive, mouseTracking, rawMode, dataListeners>>
     ELSE /\ mouseTracking' = (mouseTracking /\ ~mouseEnabled)
          /\ InputManager_stop
          /\ isActive' = FALSE
          /\ obs' = <<Emit(0, "stop")>>
  /\ lastResult' = Result("stop", 0, IF isActive THEN "ok" ELSE "repeated")
  /\ emitted' = <<>>
  /\ UNCHANGED <<hostVars, loopVars, isTTY, cursorHidden, nextId, tornDown,
                 owed, renderCount, mouseEnabled>>
  /\ UNCHANGED <<focusedComponent, focused, hooks, onInput, focusLog, stdin,
                 arrivals, dispatched, consumed, handledNo>>
  /\ UNCHANGED <<compVars, screenVars, layoutVars, lifeVars>>

\* process.stdin emits 'data' for a chunk: handleData runs once for every
\* time it is registered as a listener (input.js 50, 94-106) and emits
\* 'keypress' with the decoded key
stdinData(chunk) ==
  /\ Alive
  /\ arrivals < MaxKeys
  /\ arrivals' = arrivals + 1
  /\ emitted' = [i \in 1..dataListeners |-> KeyPress(parseKey(chunk))]
  /\ obs' = <<>>
  /\ lastResult' = Result("data", 0, "ok")
  /\ UNCHANGED <<hostVars, loopVars, termVars, ncalls, nextId, tornDown,
                 owed, renderCount, inputVars>>
  /\ UNCHANGED <<focusedComponent, focused, hooks, onInput, focusLog, stdin,
                 dispatched, consumed, handledNo>>
  /\ UNCHANGED <<compVars, screenVars, layoutVars, lifeVars>>

\* ------------------------------------------------------------- Layout ----
\* JavaScript numbers of the layout engine, as exact fractions num/den in
\* lowest terms with den > 0; Infinity is 1/0 and null is 0/0.
RECURSIVE GCD(_, _)
GCD(a, b) == IF b = 0 THEN a ELSE GCD(b, a % b)

Abs(n) == IF n < 0 THEN 0 - n ELSE n

Sign(n) == IF n < 0 THEN 0 - 1 ELSE IF n > 0 THEN 1 ELSE 0

Rat(n, d) ==
  IF d = 0 THEN [num |-> Sign(n), den |-> 0]
  ELSE LET g == GCD(Abs(n), Abs(d))
       IN [num |-> (Sign(d) * n) \div g, den |-> Abs(d) \div g]

Num(n) == Rat(n, 1)

Zero == Num(0)

Infinity == Rat(1, 0)

null == [num |-> 0, den |-> 0]

plus(a, b) == Rat(a.num * b.den + b.num * a.den, a.den * b.den)

minus(a, b) == Rat(a.num * b.den - b.num * a.den, a.den * b.den)

times(a, b) == Rat(a.num * b.num, a.den * b.den)

over(a, b) == Rat(a.num * b.den, a.den * b.num)

lessThan(a, b) == a.num * b.den < b.num * a.den

Math_max(a, b) == IF lessThan(a, b) THEN b ELSE a

Math_min(a, b) == IF lessThan(b, a) THEN b ELSE a

\* a number in a condition: 0 and null are false
truthy(v) == v.num # 0

\* style.width / style.height: 'auto', a number, or a string such as '50%'
auto == [kind |-> "auto", value |-> Zero]

number(n) == [kind |-> "number", value |-> Num(n)]

percentage(p) == [kind |-> "percent", value |-> Num(p)]

\* the style a LayoutNode is constructed with when no property is given
\* (layout.js 22-56)
DefaultStyle ==
  [display |-> "block", width |-> auto, height |-> auto,
   minWidth |-> Zero, minHeight |-> Zero,
   maxWidth |-> Infinity, maxHeight |-> Infinity,
   padding |-> Zero, flexDirection |-> "row", flexWrap |-> "nowrap",
   justifyContent |-> "flex-start", alignItems |-> "stretch",
   gap |-> Zero, flexGrow |-> Zero, flexShrink |-> Num(1)]

\* { ...defaults, ...style }
Style(style) ==
  [p \in DOMAIN DefaultStyle |->
     IF p \in DOMAIN style THEN style[p] ELSE DefaultStyle[p]]

NoNode == 0

\* new LayoutNode(style) (layout.js 10-65)
LayoutNode(style) ==
  [x |-> Zero, y |-> Zero,
   width |-> IF Style(style).width.kind = "number"
             THEN Style(style).width.value ELSE Zero,
   height |-> IF Style(style).height.kind = "number"
              THEN Style(style).height.value ELSE Zero,
   parent |-> NoNode, children |-> <<>>, style |-> Style(style)]

\* Array.prototype.indexOf: 1-based here, 0 when absent
RECURSIVE indexFrom(_, _, _)
indexFrom(seq, e, i) ==
  IF i > Len(seq) THEN 0
  ELSE IF seq[i] = e THEN i ELSE indexFrom(seq, e, i + 1)

indexOf(seq, e) == indexFrom(seq, e, 1)

\* Array.prototype.splice(index, 1)
splice(seq, i) == SubSeq(seq, 1, i - 1) \o SubSeq(seq, i + 1, Len(seq))

\* LayoutNode.removeChild(child) (layout.js 84-93) on the node table ns
removeChildOf(ns, node, child) ==
  LET index == indexOf(ns[node].children, child)
  IN IF index # 0
     THEN LET spliced == [ns EXCEPT ![node].children = splice(@, index)]
          IN [spliced EXCEPT ![child].parent = NoNode]
     ELSE ns

\* appendChild() that leaves the child in the list of the parent it had
appendChildTo_keepsOld(ns, node, child) ==
  LET pushed == [ns EXCEPT ![node].children = Append(@, child)]
  IN [pushed EXCEPT ![child].parent = node]

\* LayoutNode.appendChild(child) (layout.js 70-79)
appendChildTo(ns, node, child) ==
  LET detached == IF ns[child].parent # NoNode
                  THEN removeChildOf(ns, ns[child].parent, child)
                  ELSE ns
      pushed == [detached EXCEPT ![node].children = Append(@, child)]
  IN [pushed EXCEPT ![child].parent = node]

\* Layout.applyConstraints(node, parentWidth, parentHeight) (layout.js 374-405)
applyConstraints(node, parentWidth, parentHeight) ==
  LET style == node.style
      w1 == IF style.width.kind = "percent" /\ truthy(parentWidth)
            THEN times(parentWidth, over(style.width.value, Num(100)))
            ELSE IF style.width.kind = "number" THEN style.width.value
            ELSE node.width
      h1 == IF style.height.kind = "percent" /\ truthy(parentHeight)
            THEN times(parentHeight, over(style.height.value, Num(100)))
            ELSE IF style.height.kind = "number" THEN style.height.value
            ELSE node.height
      w2 == IF truthy(style.minWidth) THEN Math_max(w1, style.minWidth) ELSE w1
      w3 == IF truthy(style.maxWidth) /\ style.maxWidth # Infinity
            THEN Math_min(w2, style.maxWidth) ELSE w2
      h2 == IF truthy(style.minHeight) THEN Math_max(h1, style.minHeight) ELSE h1
      h3 == IF truthy(style.maxHeight) /\ style.maxHeight # Infinity
            THEN Math_min(h2, style.maxHeight) ELSE h2
  IN [node EXCEPT !.width = w3, !.height = h3]

\* Layout.getContentBox(node) (layout.js 346-355), padding being a number
getContentBox(node) ==
  LET padding == node.style.padding
  IN [x |-> padding, y |-> padding,
      width |-> Math_max(Zero, minus(minus(node.width, padding), padding)),
      height |-> Math_max(Zero, minus(minus(node.height, padding), padding))]

\* child.style.flexGrow || 0, child.style.flexShrink || 1, node.style.gap || 0
growFactorOf(child) == IF truthy(child.style.flexGrow) THEN child.style.flexGrow ELSE Zero

shrinkFactorOf(child) ==
  IF truthy(child.style.flexShrink) THEN child.style.flexShrink ELSE Num(1)

gapOf(node) == IF truthy(node.style.gap) THEN node.style.gap ELSE Zero

mainSizeOf(box, isRow) == IF isRow THEN box.width ELSE box.height

\* the sums the loops of calculateFlexLayout and positionFlexItems keep
RECURSIVE sumMainSize(_, _, _, _)
sumMainSize(ns, kids, isRow, i) ==
  IF i > Len(kids) THEN Zero
  ELSE plus(mainSizeOf(ns[kids[i]], isRow), sumMainSize(ns, kids, isRow, i + 1))

RECURSIVE sumGrowFactor(_, _, _)
sumGrowFactor(ns, kids, i) ==
  IF i > Len(kids) THEN Zero
  ELSE plus(growFactorOf(ns[kids[i]]), sumGrowFactor(ns, kids, i + 1))

RECURSIVE sumShrinkFactor(_, _, _)
sumShrinkFactor(ns, kids, i) ==
  IF i > Len(kids) THEN Zero
  ELSE plus(shrinkFactorOf(ns[kids[i]]), sumShrinkFactor(ns, kids, i + 1))

\* first pass of calculateFlexLayout (layout.js 180-198): constraints, then
\* percentage sizes against the content box
baseSize(child, contentBox) ==
  LET constrained == applyConstraints(child, contentBox.width, contentBox.height)
      style == child.style
  IN [constrained EXCEPT
        !.width = IF style.width.kind = "percent"
                  THEN times(contentBox.width, over(style.width.value, Num(100)))
                  ELSE @,
        !.height = IF style.height.kind = "percent"
                   THEN times(contentBox.height, over(style.height.value, Num(100)))
                   ELSE @]

\* second pass, positive space (layout.js 208-222)
grow(child, spacePerGrow, isRow) ==
  LET growFactor == growFactorOf(child)
      growth == times(spacePerGrow, growFactor)
  IN IF lessThan(Zero, growFactor)
     THEN IF isRow THEN [child EXCEPT !.width = plus(@, growth)]
          ELSE [child EXCEPT !.height = plus(@, growth)]
     ELSE child

\* second pass, negative space (layout.js 223-238)
shrink(child, spacePerShrink, isRow) ==
  LET shrinkFactor == shrinkFactorOf(child)
      shrinkage == times(spacePerShrink, shrinkFactor)
  IN IF lessThan(Zero, shrinkFactor)
     THEN IF isRow THEN [child EXCEPT !.width = Math_max(Zero, plus(@, shrinkage))]
          ELSE [child EXCEPT !.height = Math_max(Zero, plus(@, shrinkage))]
     ELSE child

\* the remaining main-axis space calculateFlexLayout distributes
\* (layout.js 200-206), given the children at their base sizes
remainingSpaceOf(ns, node) ==
  LET isRow == ns[node].style.flexDirection = "row"
      kids == ns[node].children
      contentBox == getContentBox(ns[node])
      gaps == IF Len(kids) > 1 THEN times(gapOf(ns[node]), Num(Len(kids) - 1))
              ELSE Zero
  IN minus(mainSizeOf(contentBox, isRow),
           plus(sumMainSize(ns, kids, isRow, 1), gaps))

\* cross-axis placement of one child (layout.js 298-336)
alignItem(child, contentBox, isRow, alignItems) ==
  LET crossSize == IF isRow THEN contentBox.height ELSE contentBox.width
      childCrossSize == IF isRow THEN child.height ELSE child.width
      crossPos == IF truthy(contentBox.y) THEN contentBox.y ELSE Zero
      centered == plus(crossPos, over(minus(crossSize, childCrossSize), Num(2)))
      atEnd == minus(plus(crossPos, crossSize), childCrossSize)
      stretched == IF isRow /\ child.style.height.kind = "auto"
                   THEN [child EXCEPT !.height = crossSize]
                   ELSE IF ~isRow /\ child.style.width.kind = "auto"
                   THEN [child EXCEPT !.width = crossSize]
                   ELSE child
      at(c, pos) == IF isRow THEN [c EXCEPT !.y = pos] ELSE [c EXCEPT !.x = pos]
  IN CASE alignItems = "center" -> at(child, centered)
       [] alignItems = "flex-end" -> at(child, atEnd)
       [] alignItems = "stretch" -> at(stretched, crossPos)
       [] OTHER -> at(child, crossPos)

\* where positionFlexItems starts and how far apart it puts the children
\* (layout.js 251-285)
justify(ns, node, contentBox, isRow, gap) ==
  LET kids == ns[node].children
      length == Len(kids)
      totalMainSize == plus(sumMainSize(ns, kids, isRow, 1),
                            times(gap, Num(IF length - 1 > 0 THEN length - 1 ELSE 0)))
      remainingSpace == minus(mainSizeOf(contentBox, isRow), totalMainSize)
      startPos == IF truthy(contentBox.x) THEN contentBox.x ELSE Zero
      justifyContent == ns[node].style.justifyContent
  IN CASE justifyContent = "center" ->
            [mainPos |-> plus(startPos, over(remainingSpace, Num(2))), spacing |-> Zero]
       [] justifyContent = "flex-end" ->
            [mainPos |-> plus(startPos, remainingSpace), spacing |-> Zero]
       [] justifyContent = "space-between" ->
            [mainPos |-> startPos,
             spacing |-> IF length > 1 THEN over(remainingSpace, Num(length - 1))
                         ELSE Zero]
       [] justifyContent = "space-around" ->
            [mainPos |-> plus(startPos, over(over(remainingSpace, Num(length)), Num(2))),
             spacing |-> over(remainingSpace, Num(length))]
       [] justifyContent = "space-evenly" ->
            [mainPos |-> plus(startPos, over(remainingSpace, Num(length + 1))),
             spacing |-> over(remainingSpace, Num(length + 1))]
       [] OTHER -> [mainPos |-> startPos, spacing |-> Zero]

isChildOf(ns, node, n) ==
  \E i \in 1..Len(ns[node].children) : ns[node].children[i] = n

\* the node table after the first pass of calculateFlexLayout(node)
baseSizes(ns, node) ==
  [n \in DOMAIN ns |->
     IF isChildOf(ns, node, n) THEN baseSize(ns[n], getContentBox(ns[node]))
     ELSE ns[n]]

RECURSIVE calculateOn(_, _, _, _)
RECURSIVE calculateBlockLayout(_, _, _, _)
RECURSIVE calculateChildren(_, _, _)
RECURSIVE positionEach(_, _, _, _, _, _, _)

\* the loop of Layout.calculateBlockLayout(node) (layout.js 146-160), from
\* child i on
calculateBlockLayout(ns, node, i, currentY) ==
  IF i > Len(ns[node].children) THEN ns
  ELSE LET child == ns[node].children[i]
           placed == [ns EXCEPT ![child].x = Zero, ![child].y = currentY]
           done == calculateOn(placed, child, placed[node].width,
                               minus(placed[node].height, currentY))
       IN calculateBlockLayout(done, node, i + 1,
                               plus(currentY, done[child].height))

\* the loop of Layout.calculate over the children of a node that is not a
\* flex container (layout.js 136-140)
calculateChildren(ns, node, i) ==
  IF i > Len(ns[node].children) THEN ns
  ELSE LET child == ns[node].children[i]
       IN calculateChildren(calculateOn(ns, child, ns[node].width, ns[node].height),
                            node, i + 1)

\* the loop of Layout.positionFlexItems (layout.js 288-340), from child i on
positionEach(ns, node, contentBox, isRow, i, mainPos, step) ==
  IF i > Len(ns[node].children) THEN ns
  ELSE LET child == ns[node].children[i]
           placed == IF isRow THEN [ns[child] EXCEPT !.x = mainPos]
                     ELSE [ns[child] EXCEPT !.y = mainPos]
           next == plus(mainPos, plus(mainSizeOf(ns[child], isRow), step))
           aligned == alignItem(placed, contentBox, isRow,
                                ns[node].style.alignItems)
           put == [ns EXCEPT ![child] = aligned]
           done == calculateOn(put, child, aligned.width, aligned.height)
       IN positionEach(done, node, contentBox, isRow, i + 1, next, step)

\* Layout.calculateFlexLayout(node) (layout.js 165-242); isWrap is computed
\* and never read
calculateFlexLayout(ns, node) ==
  LET isRow == ns[node].style.flexDirection = "row"
      gap == gapOf(ns[node])
      kids == ns[node].children
      isChild(n) == isChildOf(ns, node, n)
      contentBox == getContentBox(ns[node])
      based == baseSizes(ns, node)
      remainingSpace == remainingSpaceOf(based, node)
      totalGrowFactor == sumGrowFactor(based, kids, 1)
      totalShrinkFactor == sumShrinkFactor(based, kids, 1)
      sized ==
        IF lessThan(Zero, remainingSpace) /\ lessThan(Zero, totalGrowFactor)
        THEN [n \in DOMAIN ns |->
                IF isChild(n)
                THEN grow(based[n], over(remainingSpace, totalGrowFactor), isRow)
                ELSE based[n]]
        ELSE IF lessThan(remainingSpace, Zero) /\ lessThan(Zero, totalShrinkFactor)
        THEN [n \in DOMAIN ns |->
                IF isChild(n)
                THEN shrink(based[n], over(remainingSpace, totalShrinkFactor), isRow)
                ELSE based[n]]
        ELSE based
      from == justify(sized, node, contentBox, isRow, gap)
  IN positionEach(sized, node, contentBox, isRow, 1, from.mainPos,
                  plus(gap, from.spacing))

\* Layout.calculate(node, containerWidth, containerHeight) (layout.js
\* 114-141) on the node table ns
calculateOn(ns, node, containerWidth, containerHeight) ==
  LET constrained ==
        [ns EXCEPT ![node] = applyConstraints(@, containerWidth, containerHeight)]
      shown == ns[node].style.display
  IN IF shown = "none"
     THEN [constrained EXCEPT ![node].width = Zero, ![node].height = Zero]
     ELSE IF shown = "flex" THEN calculateFlexLayout(constrained, node)
     ELSE calculateChildren(calculateBlockLayout(constrained, node, 1, Zero),
                            node, 1)

LayoutNodes == 1..Max(MaxTreeNodes, MaxItems + 1)

RootNode == 1

NoLayoutOp == [op |-> "none", node |-> NoNode, child |-> NoNode, from |-> NoNode]

\* a call, with the parent the child had when the call was made
LayoutOp(op, node, child, from) ==
  [op |-> op, node |-> node, child |-> child, from |-> from]

\* nodes just constructed, none attached to another
Detached == [n \in LayoutNodes |-> LayoutNode(<<>>)]

LayoutInit(trees) ==
  /\ nodes \in trees
  /\ layoutCalls = 0
  /\ layoutOp = NoLayoutOp

\* node.appendChild(child) (layout.js 70-79)
appendChild(node, child) ==
  /\ nodes' = appendChildTo(nodes, node, child)
  /\ layoutOp' = LayoutOp("appendChild", node, child, nodes[child].parent)
  /\ UNCHANGED layoutCalls
  /\ UNCHANGED outsideLayout

\* node.removeChild(child) (layout.js 84-93)
removeChild(node, child) ==
  /\ nodes' = removeChildOf(nodes, node, child)
  /\ layoutOp' = LayoutOp("removeChild", node, child, nodes[child].parent)
  /\ UNCHANGED layoutCalls
  /\ UNCHANGED outsideLayout

\* createLayoutTree(component) (layout.js 436-452) for a component with the
\* style `container` whose children have the styles `items`, in order
RECURSIVE appendEach(_, _, _, _)
appendEach(ns, node, i, last) ==
  IF i > last THEN ns
  ELSE appendEach(appendChildTo(ns, node, i), node, i + 1, last)

createLayoutTree(container, items) ==
  appendEach([n \in LayoutNodes |->
                IF n = RootNode THEN LayoutNode(container)
                ELSE IF n - 1 <= Len(items) THEN LayoutNode(items[n - 1])
                ELSE LayoutNode(<<>>)],
             RootNode, 2, Len(items) + 1)

\* the styles the laid-out trees are built from: those of the layout tests
\* (host.test.js 309-546) and their neighbours
FlexRow(width, height) ==
  [display |-> "flex", flexDirection |-> "row",
   width |-> number(width), height |-> number(height)]

ContainerStyles ==
  {FlexRow(300, 100) @@ [justifyContent |-> j, gap |-> Num(g)] :
     j \in {"flex-start", "space-between"}, g \in {0, 10}}
  \cup {FlexRow(100, 100) @@ [flexWrap |-> "wrap"],
        FlexRow(300, 100) @@ [padding |-> Num(10)],
        [display |-> "flex", flexDirection |-> "column", alignItems |-> "center",
         width |-> number(100), height |-> number(300)],
        [display |-> "flex", width |-> percentage(100), height |-> percentage(100)],
        [width |-> number(200), height |-> number(100)],
        [width |-> number(200), height |-> number(100), padding |-> Num(10)]}

ItemStyles ==
  {[width |-> number(50), height |-> number(30)],
   [width |-> number(60), height |-> number(30)],
   [width |-> number(50), flexGrow |-> Num(1)],
   [width |-> number(50), flexGrow |-> Num(2)],
   [flexGrow |-> Num(1)],
   [width |-> percentage(50), height |-> percentage(75)],
   [width |-> number(50), height |-> number(30),
    minWidth |-> Num(100), minHeight |-> Num(60)],
   [width |-> number(200), height |-> number(150),
    maxWidth |-> Num(100), maxHeight |-> Num(80)],
   [width |-> number(50), height |-> number(30), maxWidth |-> Zero],
   [width |-> number(60), height |-> number(30), flexShrink |-> Zero]}

\* the trees of a container and up to `most` children
Trees(containers, styles, most) ==
  {createLayoutTree(container, items) :
     container \in containers,
     items \in UNION {[1..k -> styles] : k \in 0..most}}

\* the space calculate() is told is available: none given, or a terminal size
Available == {[width |-> null, height |-> null],
              [width |-> Num(300), height |-> Num(100)],
              [width |-> Num(200), height |-> Num(100)]}

\* layout.calculate(root, availableWidth, availableHeight) (layout.js 114-141)
calculate(availableWidth, availableHeight) ==
  /\ layoutCalls < MaxPasses
  /\ layoutCalls' = layoutCalls + 1
  /\ nodes' = calculateOn(nodes, RootNode,
                          IF availableWidth # null THEN availableWidth
                          ELSE nodes[RootNode].width,
                          IF availableHeight # null THEN availableHeight
                          ELSE nodes[RootNode].height)
  /\ layoutOp' = LayoutOp("calculate", RootNode, NoNode, NoNode)
  /\ UNCHANGED outsideLayout

\* ------------------------------------------------- Component lifecycle ----
\* The instances of one component tree (Comps, Children) being mounted and
\* unmounted by direct calls; the events each call emits are logged in order
\* together with the points where it sets `mounted` and calls render().
Life(event, comp) == [event |-> event, comp |-> comp]

Outcome(flags, log, threw) == [mounted |-> flags, log |-> log, threw |-> threw]

RECURSIVE mountFrom(_, _, _, _)
RECURSIVE mountEach(_, _, _, _)

\* mount() that emits beforeMount once the children are mounted
mountFrom_notifiesLast(c, flags, bad, log) ==
  IF flags[c] THEN Outcome(flags, log, FALSE)
  ELSE LET marked == [flags EXCEPT ![c] = TRUE]
           started == log \o <<Life("mounted", c), Life("render", c)>>
       IN IF c \in bad THEN Outcome(marked, started, TRUE)
          ELSE LET kids == mountEach(Children(c), 1, Outcome(marked, started, FALSE), bad)
               IN IF kids.threw THEN kids
                  ELSE Outcome(kids.mounted,
                               kids.log \o <<Life("beforeMount", c), Life("mount", c),
                                             Life("afterMount", c)>>,
                               FALSE)

\* Component.mount() (component.js 87-110) on instance c, `flags` being the
\* mounted flag of every instance and render() throwing for those in `bad`
mountFrom(c, flags, bad, log) ==
  IF flags[c] THEN Outcome(flags, log, FALSE)
  ELSE LET marked == [flags EXCEPT ![c] = TRUE]
           started == log \o <<Life("beforeMount", c), Life("mounted", c),
                               Life("render", c)>>
       IN IF c \in bad THEN Outcome(marked, started, TRUE)
          ELSE LET kids == mountEach(Children(c), 1, Outcome(marked, started, FALSE), bad)
               IN IF kids.threw THEN kids
                  ELSE Outcome(kids.mounted,
                               kids.log \o <<Life("mount", c), Life("afterMount", c)>>,
                               FALSE)

\* the loop over this.children (component.js 99-106), from child i on
mountEach(kids, i, sofar, bad) ==
  IF i > Len(kids) \/ sofar.threw THEN sofar
  ELSE mountEach(kids, i + 1, mountFrom(kids[i], sofar.mounted, bad, sofar.log), bad)

RECURSIVE unmountFrom(_, _, _)
RECURSIVE unmountEach(_, _, _)

\* unmount() that marks the instance unmounted before its children
unmountFrom_parentFirst(c, flags, log) ==
  IF ~flags[c] THEN Outcome(flags, log, FALSE)
  ELSE LET kids == unmountEach(Children(c), 1,
                               Outcome([flags EXCEPT ![c] = FALSE],
                                       log \o <<Life("beforeUnmount", c),
                                                Life("unmounted", c)>>,
                                       FALSE))
       IN Outcome(kids.mounted,
                  kids.log \o <<Life("unmount", c), Life("afterUnmount", c)>>,
                  FALSE)

\* Component.unmount() (component.js 115-135) on instance c
unmountFrom(c, flags, log) ==
  IF ~flags[c] THEN Outcome(flags, log, FALSE)
  ELSE LET kids == unmountEach(Children(c), 1,
                               Outcome(flags, log \o <<Life("beforeUnmount", c)>>, FALSE))
       IN Outcome([kids.mounted EXCEPT ![c] = FALSE],
                  kids.log \o <<Life("unmounted", c), Life("unmount", c),
                                Life("afterUnmount", c)>>,
                  FALSE)

\* the loop over this.children (component.js 123-129), from child i on
unmountEach(kids, i, sofar) ==
  IF i > Len(kids) THEN sofar
  ELSE unmountEach(kids, i + 1, unmountFrom(kids[i], sofar.mounted, sofar.log))

NoLifeCall == [op |-> "none", comp |-> NoFocus, was |-> FALSE, threw |-> FALSE]

LifeCall(op, comp, was, threw) ==
  [op |-> op, comp |-> comp, was |-> was, threw |-> threw]

\* instances as constructed (component.js 12-20), render() throwing for
\* one of the sets of instances in `faults`
LifecycleInit(faults) ==
  /\ instances = [c \in Comps |-> FALSE]
  /\ throwing \in faults
  /\ lifecycle = <<>>
  /\ lifecycleCall = NoLifeCall

\* instance.mount() called on component c
mountAt(c) ==
  LET done == mountFrom(c, instances, throwing, <<>>) IN
  /\ instances' = done.mounted
  /\ lifecycle' = done.log
  /\ lifecycleCall' = LifeCall("mount", c, instances[c], done.threw)
  /\ UNCHANGED throwing
  /\ UNCHANGED outsideLifecycle

\* instance.unmount() called on component c
unmountAt(c) ==
  LET done == unmountFrom(c, instances, <<>>) IN
  /\ instances' = done.mounted
  /\ lifecycle' = done.log
  /\ lifecycleCall' = LifeCall("unmount", c, instances[c], FALSE)
  /\ UNCHANGED throwing
  /\ UNCHANGED outsideLifecycle

\* the components whose render() may be made to throw
Faults == {{}, {3}, {4}}

\* ------------------------------------------------------ specification ----
HostNext(h) ==
  \/ \E def \in Defs : mount(h, def)
  \/ unmount(h)
  \/ cleanup(h)
  \/ update(h)
  \/ \E key \in Keys : handleInput(h, key)

LoopNext ==
  \/ start_afterInitialize
  \/ mount_afterStart
  \/ hookSettles
  \/ unmount_afterHook
  \/ cleanup_afterUnmountFailed
  \/ cleanup_afterUnmount
  \/ cleanup_afterRenderer
  \/ renderCallback

\* the parts a specification does not exercise stay as constructed
Idle ==
  /\ RendererInit({DefaultConfig}) /\ TreeInit(NoHooks, BaseHandlers)
  /\ LayoutInit({Detached}) /\ LifecycleInit({{}}) /\ InputInit({FALSE})

Init == HostInit({1}) /\ ComponentInit /\ Idle
Next == HostNext(1) \/ LoopNext
Spec == Init /\ [][Next]_vars

\* One host whose mount() may fail: an invalid component, a terminal that
\* refuses raw mode.
NextMountFails ==
  \/ Next
  \/ mount_invalid(1)
  \/ start_afterInitialize_throws
SpecMountFails == Init /\ [][NextMountFails]_vars

\* One InputManager started and stopped by the program while chunks arrive.
InitInput ==
  /\ HostInit({}) /\ ComponentInit
  /\ RendererInit({DefaultConfig}) /\ TreeInit(NoHooks, BaseHandlers)
  /\ LayoutInit({Detached}) /\ LifecycleInit({{}}) /\ InputInit(BOOLEAN)
NextInput ==
  \/ startInput
  \/ stopInput
  \/ \E chunk \in PlainKeys : stdinData(chunk)
SpecInput == InitInput /\ [][NextInput]_vars

\* One Component on the nextTick queue, no host constructed.
InitComponent == HostInit({}) /\ isTTY /\ ComponentInit /\ Idle
NextComponent == ComponentNext
SpecComponent == InitComponent /\ [][NextComponent]_vars

\* A Component whose update listeners may call setState().
NextListeners ==
  \/ ComponentNext
  \/ \E event \in UpdateEvents, v \in StateValues :
       scheduleUpdate_callback_setState(event, v)
SpecListeners == InitComponent /\ [][NextListeners]_vars

\* One host with an 'error' listener registered.
InitListening == HostInit({}) /\ ComponentInit /\ Idle
SpecListening == InitListening /\ [][Next]_vars

\* A program that drives either the host or a Component: the two schedulers
\* share no state, so they are explored one at a time.
InitCancel == Init
HostTurn == ComponentInit
ComponentTurn == ncalls = 0
NextCancel ==
  \/ HostTurn /\ \E def \in Defs : mount(1, def)
  \/ HostTurn /\ unmount(1)
  \/ HostTurn /\ cleanup(1)
  \/ HostTurn /\ update(1)
  \/ HostTurn /\ \E key \in Keys : handleInput(1, key)
  \/ HostTurn /\ start_afterInitialize
  \/ HostTurn /\ mount_afterStart
  \/ HostTurn /\ hookSettles
  \/ HostTurn /\ unmount_afterHook
  \/ HostTurn /\ cleanup_afterUnmountFailed
  \/ HostTurn /\ cleanup_afterUnmount
  \/ HostTurn /\ cleanup_afterRenderer
  \/ HostTurn /\ renderCallback
  \/ ComponentTurn /\ \E v \in StateValues : setState(v)
  \/ ComponentTurn /\ forceUpdate
  \/ ComponentTurn /\ Component_mount
  \/ ComponentTurn /\ Component_unmount
  \/ ComponentTurn /\ scheduleUpdate_callback
  \/ ComponentTurn /\ taskEnds
  \/ ComponentTurn /\ taskBegins
SpecCancel == InitCancel /\ [][NextCancel]_vars

\* Two hosts in one process, both with an 'error' listener, mounting
\* components without a cleanup hook.
InitHosts == HostInit({}) /\ ComponentInit /\ Idle
NextHosts ==
  \/ \E h \in Hosts :
       \/ mount(h, "plain")
       \/ unmount(h)
       \/ cleanup(h)
       \/ update(h)
       \/ \E key \in Keys : handleInput(h, key)
  \/ start_afterInitialize
  \/ mount_afterStart
  \/ cleanup_afterUnmount
  \/ cleanup_afterRenderer
  \/ renderCallback
SpecHosts == InitHosts /\ [][NextHosts]_vars

\* One Renderer in front of a terminal, in either mode, the terminal being
\* resized between frames.
InitRenderer ==
  /\ HostInit({}) /\ isTTY /\ ComponentInit
  /\ RendererInit(Configs) /\ TreeInit(NoHooks, BaseHandlers)
  /\ LayoutInit({Detached}) /\ LifecycleInit({{}}) /\ InputInit({FALSE})
NextRenderer == RendererNext
SpecRenderer == InitRenderer /\ [][NextRenderer]_vars

\* One ComponentTree whose focus moves between its components, which may
\* or may not define focus hooks.
InitFocus ==
  /\ HostInit({}) /\ isTTY /\ ComponentInit /\ RendererInit({DefaultConfig})
  /\ TreeInit([Comps -> BOOLEAN], BaseHandlers)
  /\ LayoutInit({Detached}) /\ LifecycleInit({{}}) /\ InputInit({FALSE})
NextFocus == \E c \in Comps \cup {NoFocus} : setFocus(c)
SpecFocus == InitFocus /\ [][NextFocus]_vars

\* Keys typed at a running host whose mounted tree dispatches them to its
\* components, each with one of the handleInput behaviours.
InitDispatch ==
  /\ HostInit({}) /\ isTTY /\ ComponentInit /\ RendererInit({DefaultConfig})
  /\ TreeInit(NoHooks, [Comps -> InputHandlers])
  /\ LayoutInit({Detached}) /\ LifecycleInit({{}}) /\ InputInit({FALSE})
NextDispatch ==
  \/ \E c \in Comps \cup {NoFocus} : setFocus(c)
  \/ \E chunk \in PlainKeys : dataArrives(chunk)
  \/ handleData
SpecDispatch == InitDispatch /\ [][NextDispatch]_vars

\* The input decoder fed every kind of chunk a terminal sends.
InitDecoder ==
  /\ HostInit({}) /\ isTTY /\ ComponentInit /\ RendererInit({DefaultConfig})
  /\ TreeInit(NoHooks, BaseHandlers)
  /\ LayoutInit({Detached}) /\ LifecycleInit({{}}) /\ InputInit({FALSE})
NextDecoder ==
  \/ \E chunk \in Chunks : dataArrives(chunk)
  \/ handleData
SpecDecoder == InitDecoder /\ [][NextDecoder]_vars

\* LayoutNode objects attached to and detached from one another.
InitLayoutTree ==
  /\ HostInit({}) /\ isTTY /\ ComponentInit
  /\ RendererInit({DefaultConfig}) /\ TreeInit(NoHooks, BaseHandlers)
  /\ LayoutInit({Detached}) /\ LifecycleInit({{}}) /\ InputInit({FALSE})
NextLayoutTree ==
  \/ \E node, child \in 1..MaxTreeNodes : appendChild(node, child)
  \/ \E node, child \in 1..MaxTreeNodes : removeChild(node, child)
SpecLayoutTree == InitLayoutTree /\ [][NextLayoutTree]_vars

\* The layout engine run, once or again, on a container and its children.
InitLayout ==
  /\ HostInit({}) /\ isTTY /\ ComponentInit
  /\ RendererInit({DefaultConfig}) /\ TreeInit(NoHooks, BaseHandlers)
  /\ LayoutInit(Trees(ContainerStyles, ItemStyles, MaxItems))
  /\ LifecycleInit({{}}) /\ InputInit({FALSE})
NextLayout ==
  \E available \in Available : calculate(available.width, available.height)
SpecLayout == InitLayout /\ [][NextLayout]_vars

\* Flex containers that take the size calculate() is given, in every
\* direction, justifyContent and alignItems setting, with children that grow
\* or keep a fixed size and may be told not to shrink.
FlexContainers ==
  {[display |-> "flex", flexDirection |-> d, justifyContent |-> j,
    alignItems |-> a, width |-> percentage(100), height |-> percentage(100)] :
     d \in {"row", "column"},
     j \in {"flex-start", "center", "flex-end", "space-between",
            "space-around", "space-evenly"},
     a \in {"stretch", "flex-start", "center", "flex-end"}}

FlexItems ==
  {[width |-> number(60), height |-> number(30)],
   [width |-> number(60), height |-> number(30), flexShrink |-> Zero],
   [flexGrow |-> Num(1), flexShrink |-> Zero]}

\* The layout engine run on such a container, once or again after the
\* available size has changed.
InitFlexbox ==
  /\ HostInit({}) /\ isTTY /\ ComponentInit
  /\ RendererInit({DefaultConfig}) /\ TreeInit(NoHooks, BaseHandlers)
  /\ LayoutInit(Trees(FlexContainers, FlexItems, MaxItems))
  /\ LifecycleInit({{}}) /\ InputInit({FALSE})
NextFlexbox ==
  \E available \in Available : calculate(available.width, available.height)
SpecFlexbox == InitFlexbox /\ [][NextFlexbox]_vars

\* The instances of one component tree mounted and unmounted by direct
\* calls, render() throwing for none or for one of them.
InitLifecycle ==
  /\ HostInit({}) /\ isTTY /\ ComponentInit
  /\ RendererInit({DefaultConfig}) /\ TreeInit(NoHooks, BaseHandlers)
  /\ LayoutInit({Detached}) /\ LifecycleInit(Faults) /\ InputInit({FALSE})
NextLifecycle ==
  \/ \E c \in Comps : mountAt(c)
  \/ \E c \in Comps : unmountAt(c)
SpecLifecycle == InitLifecycle /\ [][NextLifecycle]_vars

TypeOK ==
  /\ isRunning \in [Hosts -> BOOLEAN]
  /\ isDirty \in [Hosts -> BOOLEAN]
  /\ renderer \in [Hosts -> {"null", "initialized", "cleaned"}]
  /\ inputManager \in [Hosts -> {"null", "created", "active"}]
  /\ renderTimer \in [Hosts -> {"null", "immediate"}]
  /\ exitCode \in {"running", "exit0", "uncaught"}
  /\ dataListeners \in 0..MaxCalls
  /\ ncalls \in 0..MaxCalls
  /\ layoutCalls \in 0..MaxPasses
  /\ instances \in [Comps -> BOOLEAN]
  /\ \A n \in LayoutNodes : nodes[n].parent \in LayoutNodes \cup {NoNode}

\* ------------------------------------------------------------- claims ----
\* C1: mount() on a host that has a component mounted fails with the
\* 'already mounted' error and changes nothing: the mounted tree, the running
\* flag, the renderer, the input manager and every queue stay as they were.
C1_MountConflict ==
  [][\A h \in Hosts :
       (componentTree[h] # NoComponent /\ \E def \in Defs : mount(h, def))
         => /\ lastResult' = Result("mount", h, "MountConflict")
            /\ UNCHANGED <<hostVars, loopVars, termVars>>]_vars

\* a second mount() has just been refused while the first tree is mounted on
\* the running host
C1_Witness ==
  /\ lastResult = Result("mount", 1, "MountConflict")
  /\ componentTree[1] # NoComponent
  /\ isRunning[1]

\* C2: n >= 1 setState/forceUpdate calls on a mounted component within one
\* task are followed by exactly one update() pass with one render(), and
\* none of it runs before the task's synchronous code has returned.
C2_OnePass ==
  /\ []((phase = "ticks" /\ nextTicks = 0 /\ steady /\ requests >= 1)
          => (passes = 1 /\ renders = 1))
  /\ []((phase = "task" /\ steady) => (passes = 0 /\ renders = 0))
  /\ []((steady /\ requests >= 1) => passes <= 1)

\* three calls in one task, the queue drained, one pass
C2_Witness ==
  phase = "ticks" /\ nextTicks = 0 /\ steady /\ requests = 3 /\ passes = 1

\* C3: the render requests of one tick coalesce into one render pass on the
\* next tick.  At most one: a host never has two render callbacks queued, and
\* no request renders synchronously.  At least one: a request made while the
\* host runs with a component mounted leaves a callback queued, and that
\* callback performs one render pass if the component is still mounted.
C3_Coalesced ==
  /\ [](\A h \in Hosts : Pending(h) <= 1)
  /\ [](\A h \in Hosts : (owed[h] /\ Alive) => Pending(h) = 1)
  /\ [][ncalls' # ncalls
          => \A i \in 1..Len(obs') : obs'[i].kind # "render()"]_vars
  /\ [][\A h \in Hosts :
          (renderCallback /\ Head(immediates) = h /\ owed[h]
             /\ componentTree[h] # NoComponent /\ renderer[h] # "null")
          => renderCount'[h] = renderCount[h] + 1]_vars

\* update() has just asked for a render while the request of mount() is
\* still queued: two requests, one callback
C3_Witness ==
  /\ lastResult = Result("update", 1, "ok")
  /\ isRunning[1] /\ componentTree[1] # NoComponent
  /\ renderCount[1] = 0 /\ owed[1] /\ Pending(1) = 1

\* C4: after teardown nothing of an earlier render request executes: render()
\* is never called on an instance whose unmount has completed, the renderer
\* paints only for a running host, and update()/render() never run on an
\* unmounted Component.
C4_Cancelled ==
  /\ [](\A i \in 1..Len(obs) :
          /\ obs[i].kind = "render()" => obs[i].id \notin tornDown
          /\ obs[i].kind = "paint" => (isRunning[obs[i].h]
                                        /\ renderer[obs[i].h] = "initialized"))
  /\ [][(passes' > passes \/ renders' > renders) => mounted']_vars

\* the host's only instance was torn down before its first render, the host
\* is stopped and the queued callback has run without rendering
C4_Witness ==
  /\ nextId = 1 /\ tornDown = {1} /\ renderCount[1] = 0
  /\ ~isRunning[1] /\ ~isDirty[1] /\ immediates = <<>> /\ micro = <<>>
  /\ Alive /\ obs = <<>> /\ ncalls >= 2

\* C5: a render() that throws is caught: the process lives, 'error' is
\* emitted, the host stays running and its dirty flag is cleared so that
\* later requests render again.
C5_RenderErrorCaught ==
  \A i \in 1..Len(obs) :
    (obs[i].kind = "render()" /\ renderThrows(obs[i].name))
      => /\ Alive
         /\ \E j \in 1..Len(obs) : obs[j] = Emit(obs[i].h, "error")
         /\ ~isDirty[obs[i].h]

\* C6: when the process ends the terminal has been restored: cursor visible,
\* raw mode off, no 'data' listener left.
C6_RestoredAtExit ==
  ~Alive => (~cursorHidden /\ ~rawMode /\ dataListeners = 0)

\* C7: a cleanup() that fails in one step still runs the others: when the
\* call rejects, the input manager is stopped, the renderer cleaned up and
\* the host not running.
C7_BestEffort ==
  (lastResult.op = "cleanup" /\ lastResult.res = "rejected")
    => /\ inputManager[lastResult.h] = "null"
       /\ renderer[lastResult.h] = "null"
       /\ ~isRunning[lastResult.h]

\* C8: teardown happens once per start: the 'cleanup' event is emitted only
\* by a step that takes the host from running to not running.
C8_OncePerStart ==
  [][\A i \in 1..Len(obs') :
       obs'[i].name = "cleanup" /\ obs'[i].kind = "emit"
         => (isRunning[obs'[i].h] /\ ~isRunning'[obs'[i].h])]_vars

\* C9: at most one host holds the terminal: one active input manager, one
\* 'data' listener on stdin.
C9_Exclusive ==
  /\ Cardinality({h \in Hosts : inputManager[h] = "active"}) <= 1
  /\ dataListeners <= 1

\* C10: when mount() resolves render() has run exactly once, and when a
\* following update() resolves it has run once more.
C10_RenderedOnResolve ==
  /\ [](\A h \in Hosts : lastResult = Result("mount", h, "ok")
                           => renderCount[h] = 1)
  /\ [][\A h \in Hosts :
          (lastResult' = Result("update", h, "ok") /\ isRunning[h]
             /\ componentTree[h] # NoComponent
             /\ \A i \in 1..Len(micro) : micro[i].op # "mount")
          => renderCount'[h] = renderCount[h] + 1]_vars

\* C11: after Renderer.render(content) returns, the display matches the new
\* frame, in fullscreen and in inline mode and whatever frames came before:
\* every row i below min(number of lines, terminal height), counted from the
\* row the frame starts on, shows line i of the content cut to the terminal
\* width (a row that has scrolled off the top of the display excepted).
C11_DisplayMatchesFrame ==
  (lastOp = "render" /\ isInitialized) =>
    \A i \in 0..(Min(Len(buffer), config.height) - 1) :
      (origin + i) \in 0..(config.height - 1) =>
        display[origin + i + 1] = slice(buffer[i + 1], config.width)

\* C12: Renderer idempotence: whatever the content and the configuration,
\* the second of two render(content) calls in a row with identical content
\* makes no terminal write call at all.
C12_Idempotent ==
  [][(lastOp = "render" /\ isInitialized /\ lastOp' = "render"
        /\ buffer' = buffer)
       => writes' = <<>>]_vars

\* line indexes (0-based) at which two frames differ, a line one of them
\* lacks counting as different
Differing(prev, cur) ==
  {i \in 0..(Max(Len(prev), Len(cur)) - 1) :
     i >= Len(prev) \/ i >= Len(cur) \/ prev[i + 1] # cur[i + 1]}

\* line indexes a Renderer call has cleared on the terminal
Repainted(log) == {log[w].index : w \in {x \in 1..Len(log) : log[x].kind = "erase"}}

\* C13: Renderer diff minimality: when two consecutive frames differ in
\* exactly one line index, the second render repaints exactly that line; and
\* a render clears and rewrites a line only if its string differs from the
\* line at the same index of the previous frame.
C13_DiffMinimal ==
  [][(lastOp = "render" /\ isInitialized /\ lastOp' = "render") =>
       /\ Cardinality(Differing(buffer, buffer')) = 1 =>
            Repainted(writes') = Differing(buffer, buffer')
       /\ Repainted(writes') \subseteq Differing(buffer, buffer')]_vars

\* C14: Renderer shrink: when the new frame has fewer lines than the
\* previous one, every vacated row, from the new length up to the previous
\* length minus 1, is blank on the display once render() returns, so no text
\* of the previous frame stays visible.
C14_ShrinkClears ==
  [][(lastOp = "render" /\ isInitialized /\ lastOp' = "render"
        /\ Len(buffer') < Len(buffer)) =>
       \A i \in Len(buffer')..(Len(buffer) - 1) :
         (origin' + i) \in 0..(config.height - 1) =>
           display'[origin' + i + 1] = Blank]_vars

\* line indexes a Renderer call has written the text of
Rewritten(log) == {log[w].index : w \in {x \in 1..Len(log) : log[x].kind = "text"}}

\* C15: Renderer resize: a terminal resize leaves the renderer with the new
\* width and height and no previous buffer, so the next render() repaints
\* every line of its frame, also when the content is the frame painted last.
C15_ResizeRepaints ==
  [][/\ lastOp' = "resize" =>
          /\ previousBuffer' = <<>>
          /\ Len(display') = config'.height
     /\ (lastOp = "resize" /\ lastOp' = "render") =>
          /\ Repainted(writes') = 0..(Len(buffer') - 1)
          /\ Rewritten(writes') = 0..(Len(buffer') - 1)]_vars

\* C16: the Component lifecycle is unmounted -> mounted -> unmounted and the
\* last state is terminal: mount() on an instance that has been mounted and
\* unmounted is rejected, so such an instance is never mounted again.
C16_Terminal == used => ~mounted

\* the components whose focused flag is set
Focused == {c \in Comps : focused[c]}

\* C17: focus is exclusive: after any sequence of setFocus calls at most one
\* component is focused, and it is the tree's focusedComponent; a change of
\* focus from A to a different B takes the focus from A (and runs A's blur)
\* before it gives the focus to B (and runs B's focus), inside the one
\* setFocus call, so two components are never focused at the same time.
C17_FocusExclusive ==
  /\ Cardinality(Focused) <= 1
  /\ \A c \in Comps : focused[c] <=> focusedComponent = c
  /\ \A i, j \in 1..Len(focusLog) :
       (focusLog[i].op \in {"focused = false", "handleBlur"}
          /\ focusLog[j].op \in {"focused = true", "handleFocus"})
         => (i < j /\ focusLog[i].c # focusLog[j].c)

\* the focus has moved from a component with a blur hook to another with a
\* focus hook
C17_Witness ==
  \E i, j \in 1..Len(focusLog) :
    /\ focusLog[i].op = "handleBlur"
    /\ focusLog[j].op = "handleFocus"
    /\ focusLog[j].c = focusedComponent

\* C18: key events reach the tree strictly in arrival order, one at a time,
\* and each key causes at most one dispatch: for one key no component's
\* handleInput is invoked more than once.
C18_OneDispatchPerKey ==
  /\ \A i \in 1..Len(stdin) : stdin[i].no = handledNo + i
  /\ \A i, j \in 1..Len(dispatched) :
       dispatched[i] = dispatched[j] => i = j

\* escape sequences of the key table: the named keys, ESC [ n ~, SGR mouse
KnownSequence(str) ==
  \/ str \in {<<ESC, LeftBracket, 65>>, <<ESC, LeftBracket, 66>>,
              <<ESC, LeftBracket, 67>>, <<ESC, LeftBracket, 68>>,
              <<ESC, LeftBracket, 72>>, <<ESC, LeftBracket, 70>>}
  \/ (functionKeyMatches(str) = {1} /\ digitsEnd(str, 3) = Len(str) - 1)
  \/ mouseMatches(str) # {}

\* a chunk that is neither a known escape sequence, nor a single control or
\* printable character, nor ESC followed by one character
Unrecognized(str) ==
  ~KnownSequence(str) /\ Len(str) # 1 /\ ~(Len(str) = 2 /\ str[1] = ESC)

\* C19: an unrecognized input chunk decodes to null and is silently dropped:
\* handleData() emits no key event for it, nothing is dispatched and no
\* error is raised.
C19_UnrecognizedDropped ==
  [][(handledNo' # handledNo /\ Unrecognized(Head(stdin).chunk)) =>
       (emitted' = <<>> /\ dispatched' = <<>> /\ exitCode' = exitCode)]_vars

\* a 'mouse' event carrying what parseMouse() returns
MouseInput(mouse) ==
  [event |-> "mouse",
   key |-> Key(<<>>, NoName, FALSE, FALSE, FALSE, NoCode), mouse |-> mouse]

\* C20: an SGR mouse chunk ESC [ < b ; x ; y (M|m) arriving on the input
\* stream is decoded to a MouseEvent: 0-based coordinates (x-1, y-1), the
\* button from the low 2 bits of b, shift/meta/ctrl from bits 4/8/16, press
\* for M and release for m, scroll with its direction from bit 0 when bit 64
\* is set; ESC[<0;5;3M is a left-button press at (4,2).  The event
\* handleData() emits for the chunk is that MouseEvent.
C20_MouseDecoded ==
  [][(handledNo' # handledNo /\ Head(stdin).chunk \in MouseChunks) =>
       /\ emitted' = <<MouseInput(parseMouse(Head(stdin).chunk))>>
       /\ Head(stdin).chunk = SGR(0, 5, 3, UpperM) =>
            emitted'[1].mouse =
              Mouse(4, 2, "left", "press", FALSE, FALSE, FALSE)]_vars

\* the named keys of the key table and the sequence a terminal sends for each
KeyTable ==
  {[chunk |-> <<ESC, LeftBracket, 65>>, name |-> "up"],
   [chunk |-> <<ESC, LeftBracket, 66>>, name |-> "down"],
   [chunk |-> <<ESC, LeftBracket, 67>>, name |-> "right"],
   [chunk |-> <<ESC, LeftBracket, 68>>, name |-> "left"],
   [chunk |-> <<ESC, LeftBracket, 72>>, name |-> "home"],
   [chunk |-> <<ESC, LeftBracket, 70>>, name |-> "end"],
   [chunk |-> <<ESC, LeftBracket, 53, Tilde>>, name |-> "pageup"],
   [chunk |-> <<ESC, LeftBracket, 54, Tilde>>, name |-> "pagedown"],
   [chunk |-> <<ESC, LeftBracket, 51, Tilde>>, name |-> "delete"],
   [chunk |-> <<ESC, LeftBracket, 50, Tilde>>, name |-> "insert"]}

\* C21: the key table: every known sequence decodes to a key event with the
\* matching name: the arrows, Home, End, PageUp, PageDown, Delete and Insert
\* to their names; ESC [ n ~ to a function key F1..F12 and to no other
\* function-key name; each single byte 1..26 to ctrl = true with the letter
\* obtained by adding 64 and lower-casing (the bytes of Backspace, Tab and
\* Enter, 8, 9, 10 and 13, left to their own names).
C21_KeyTable ==
  [][handledNo' # handledNo =>
       LET chunk == Head(stdin).chunk
           key == emitted'[1].key
       IN /\ emitted' # <<>>
          /\ \A k \in KeyTable : chunk = k.chunk => key.name = Named(k.name)
          /\ key.name.kind = "f" => key.name.n \in 1..12
          /\ (Len(chunk) = 1 /\ chunk[1] \in (1..26) \ {8, 9, 10, 13}) =>
               (key.ctrl /\ key.name = CharName(toLowerCase(chunk[1] + 64)))]_vars

\* the container as calculate() has just sized it, its children as they
\* were before the call
Before == [nodes EXCEPT ![RootNode] = nodes'[RootNode]]

Calculated == layoutCalls' # layoutCalls

IsFlex(node) == node.style.display = "flex"

IsRow(node) == node.style.flexDirection = "row"

Items == nodes[RootNode].children

\* C22: in a flex container with positive remaining main-axis space, after
\* calculate() each child's final main-axis size is its base size plus
\* remainingSpace x flexGrow / totalGrowFactor: a single growing child takes
\* the whole remaining space and a child with flexGrow 0 keeps its base size.
C22_FlexGrow ==
  [][Calculated /\ IsFlex(nodes[RootNode]) =>
       LET based == baseSizes(Before, RootNode)
           isRow == IsRow(nodes[RootNode])
           remainingSpace == remainingSpaceOf(based, RootNode)
           totalGrowFactor == sumGrowFactor(based, Items, 1)
       IN lessThan(Zero, remainingSpace) /\ lessThan(Zero, totalGrowFactor) =>
            \A i \in 1..Len(Items) :
               mainSizeOf(nodes'[Items[i]], isRow) =
                 plus(mainSizeOf(based[Items[i]], isRow),
                      over(times(remainingSpace, growFactorOf(based[Items[i]])),
                           totalGrowFactor))]_vars
\* C23: under negative remaining space, children with flexShrink = 1 are
\* shrunk by remainingSpace in total, exactly, and no child's main-axis size
\* goes below 0 (whatever the proportions the shrink is shared in).
C23_FlexShrink ==
  [][Calculated /\ IsFlex(nodes[RootNode]) =>
       LET based == baseSizes(Before, RootNode)
           isRow == IsRow(nodes[RootNode])
           remainingSpace == remainingSpaceOf(based, RootNode)
       IN (/\ lessThan(remainingSpace, Zero)
           /\ \A i \in 1..Len(Items) : nodes[Items[i]].style.flexShrink = Num(1)) =>
            /\ \A i \in 1..Len(Items) :
                  ~lessThan(mainSizeOf(nodes'[Items[i]], isRow), Zero)
            /\ minus(sumMainSize(nodes', Items, isRow, 1),
                     sumMainSize(based, Items, isRow, 1)) = remainingSpace]_vars
\* what a percentage style size comes to against a parent size
percentOf(size, parentSize) == times(parentSize, over(size.value, Num(100)))

\* C24: after calculate() a child whose width / height is a percentage has
\* width / height equal to its parent's content-box size x percent / 100, in
\* block parents and in flex parents alike, computed from the size the
\* parent has in this pass.
C24_Percentage ==
  [][Calculated /\ nodes[RootNode].style.display # "none" =>
       LET contentBox == getContentBox(nodes'[RootNode])
       IN \A i \in 1..Len(Items) :
            LET child == nodes'[Items[i]]
            IN /\ child.style.width.kind = "percent" =>
                    child.width = percentOf(child.style.width, contentBox.width)
               /\ child.style.height.kind = "percent" =>
                    child.height = percentOf(child.style.height, contentBox.height)]_vars
\* the x a child of a row starts at when the children before it sit side by
\* side, `between` apart
RECURSIVE startOf(_, _, _, _)
startOf(ns, kids, i, between) ==
  IF i = 1 THEN Zero
  ELSE plus(startOf(ns, kids, i - 1, between),
            plus(ns[kids[i - 1]].width, between))

\* C25: in a flex row container without padding, with justifyContent
\* flex-start child i starts at the sum of the widths of the children before
\* it plus i x gap; with space-between the first child starts at 0, the last
\* one ends at the container's end and the children are evenly spaced; a
\* single child starts at 0.
C25_MainAxis ==
  [][(/\ Calculated
      /\ IsFlex(nodes[RootNode]) /\ IsRow(nodes[RootNode])
      /\ nodes[RootNode].style.padding = Zero
      /\ Items # <<>>) =>
       LET container == nodes'[RootNode]
           gap == container.style.gap
           last == nodes'[Items[Len(Items)]]
           spacing == over(minus(last.x, startOf(nodes', Items, Len(Items), gap)),
                           Num(Len(Items) - 1))
       IN /\ container.style.justifyContent = "flex-start" =>
               \A i \in 1..Len(Items) :
                  nodes'[Items[i]].x = startOf(nodes', Items, i, gap)
          /\ container.style.justifyContent = "space-between" =>
               /\ nodes'[Items[1]].x = Zero
               /\ Len(Items) > 1 =>
                    /\ plus(last.x, last.width) = container.width
                    /\ \A i \in 1..Len(Items) :
                          nodes'[Items[i]].x =
                            startOf(nodes', Items, i, plus(gap, spacing))]_vars
\* the nodes calculate() lays out: the container and its children
LaidOut == {RootNode} \cup {Items[i] : i \in 1..Len(Items)}

Within(size, min, max) == ~lessThan(size, min) /\ ~lessThan(max, size)

\* C26: after calculate() every laid-out node that is not display none has
\* its width within [minWidth, maxWidth] and its height within [minHeight,
\* maxHeight] (for min <= max), whatever percentage resolution, grow, shrink
\* or stretch produced.
C26_Clamped ==
  [][Calculated /\ nodes[RootNode].style.display # "none" =>
       \A n \in LaidOut :
          LET node == nodes'[n]
              style == node.style
          IN style.display # "none" =>
               /\ ~lessThan(style.maxWidth, style.minWidth) =>
                    Within(node.width, style.minWidth, style.maxWidth)
               /\ ~lessThan(style.maxHeight, style.minHeight) =>
                    Within(node.height, style.minHeight, style.maxHeight)]_vars
\* the width children 1..i of a row ask for, gaps included
RECURSIVE lineWidth(_, _, _, _)
lineWidth(ns, kids, i, gap) ==
  IF i = 0 THEN Zero
  ELSE IF i = 1 THEN ns[kids[1]].width
  ELSE plus(lineWidth(ns, kids, i - 1, gap), plus(gap, ns[kids[i]].width))

\* the height of the line made of children 1..i
RECURSIVE lineHeight(_, _, _)
lineHeight(ns, kids, i) ==
  IF i = 0 THEN Zero
  ELSE Math_max(lineHeight(ns, kids, i - 1), ns[kids[i]].height)

\* C27: in a row flex container with flexWrap 'wrap', the first child that
\* does not fit in the width left on the first line starts the next line: it
\* is placed at x = 0, y = height of the first line, neither shrunk nor
\* overflowing.
C27_Wrap ==
  [][(/\ Calculated
      /\ IsFlex(nodes[RootNode]) /\ IsRow(nodes[RootNode])
      /\ nodes[RootNode].style.flexWrap = "wrap"
      /\ nodes[RootNode].style.padding = Zero) =>
       LET based == baseSizes(Before, RootNode)
           gap == gapOf(nodes[RootNode])
           fits(i) == ~lessThan(nodes'[RootNode].width, lineWidth(based, Items, i, gap))
       IN \A i \in 2..Len(Items) :
            (fits(i - 1) /\ ~fits(i)) =>
              /\ nodes'[Items[i]].x = Zero
              /\ nodes'[Items[i]].y = lineHeight(nodes', Items, i - 1)]_vars
\* how many times a node occurs in a children list
RECURSIVE occurrences(_, _, _)
occurrences(seq, e, i) ==
  IF i > Len(seq) THEN 0
  ELSE (IF seq[i] = e THEN 1 ELSE 0) + occurrences(seq, e, i + 1)

RECURSIVE occurrencesIn(_, _)
occurrencesIn(e, n) ==
  IF n = 0 THEN 0
  ELSE occurrences(nodes[n].children, e, 1) + occurrencesIn(e, n - 1)

\* C28: after any sequence of appendChild / removeChild calls every node is
\* in at most one children list and at most once in it, and its parent
\* reference is the node whose list contains it (null when it is in none);
\* appendChild puts the child last in the list of its new parent and takes
\* it out of the list of the parent it had.
C28_TreeStructure ==
  /\ \A n \in LayoutNodes :
       /\ occurrencesIn(n, MaxTreeNodes) <= 1
       /\ \A p \in LayoutNodes :
            nodes[n].parent = p <=> occurrences(nodes[p].children, n, 1) = 1
       /\ nodes[n].parent = NoNode <=> occurrencesIn(n, MaxTreeNodes) = 0
  /\ layoutOp.op = "appendChild" =>
       LET children == nodes[layoutOp.node].children
       IN /\ children # <<>> /\ children[Len(children)] = layoutOp.child
          /\ nodes[layoutOp.child].parent = layoutOp.node
          /\ layoutOp.from \notin {NoNode, layoutOp.node} =>
               occurrences(nodes[layoutOp.from].children, layoutOp.child, 1) = 0
  /\ layoutOp.op = "removeChild" /\ layoutOp.from = layoutOp.node =>
       /\ occurrences(nodes[layoutOp.node].children, layoutOp.child, 1) = 0
       /\ nodes[layoutOp.child].parent = NoNode

\* a node that had a parent has been appended to another node
C28_Witness ==
  /\ layoutOp.op = "appendChild"
  /\ layoutOp.from \notin {NoNode, layoutOp.node}
  /\ nodes[layoutOp.child].parent = layoutOp.node
  /\ Len(nodes[layoutOp.node].children) > 1
\* the instances below c in the tree, c included
RECURSIVE Subtree(_)
Subtree(c) ==
  {c} \cup UNION {Subtree(Children(c)[i]) : i \in 1..Len(Children(c))}

\* where the last call did `event` on instance c (0 when it did not)
At(event, c) == indexOf(lifecycle, Life(event, c))

Once(event, c) == occurrences(lifecycle, Life(event, c), 1) = 1

\* the last call was mount() on an unmounted instance and returned
Mounting ==
  /\ lifecycleCall.op = "mount"
  /\ ~lifecycleCall.was
  /\ ~lifecycleCall.threw

\* what the last call did to the instances below c came between the steps
\* `first` and `then` of c, child by child in the order of c's children
ChildrenBetween(c, first, then) ==
  /\ \A k \in 1..Len(lifecycle) :
       lifecycle[k].comp # c => At(first, c) < k /\ k < At(then, c)
  /\ \A i, j \in 1..Len(Children(c)) :
       i < j =>
         \A k, l \in 1..Len(lifecycle) :
            (/\ lifecycle[k].comp \in Subtree(Children(c)[i])
             /\ lifecycle[l].comp \in Subtree(Children(c)[j])) => k < l

MountSteps == {"beforeMount", "mounted", "render", "mount", "afterMount"}

\* C29: mount() on an unmounted instance marks it mounted, performs the
\* first render(), mounts its children in the order of the children
\* sequence, and only then fires before-mount, mount, after-mount, in that
\* order and each exactly once; mount() on a mounted instance does nothing.
C29_MountOrder ==
  LET c == lifecycleCall.comp IN
  /\ lifecycleCall.op = "mount" /\ lifecycleCall.was => lifecycle = <<>>
  /\ Mounting =>
       /\ instances[c]
       /\ \A step \in MountSteps : Once(step, c)
       /\ At("mounted", c) < At("render", c)
       /\ ChildrenBetween(c, "render", "beforeMount")
       /\ \A i \in 1..Len(Children(c)) : instances[Children(c)[i]]
       /\ At("render", c) < At("beforeMount", c)
       /\ At("beforeMount", c) < At("mount", c)
       /\ At("mount", c) < At("afterMount", c)

\* C29, amended: mount() on an unmounted instance fires before-mount first,
\* then marks the instance mounted, performs the first render(), mounts its
\* children in the order of the children sequence, and then fires mount and
\* after-mount, each exactly once; mount() on a mounted instance does
\* nothing.
C29_MountOrder_Amended ==
  LET c == lifecycleCall.comp IN
  /\ lifecycleCall.op = "mount" /\ lifecycleCall.was => lifecycle = <<>>
  /\ Mounting =>
       /\ instances[c]
       /\ \A step \in MountSteps : Once(step, c)
       /\ At("beforeMount", c) = 1
       /\ At("beforeMount", c) < At("mounted", c)
       /\ At("mounted", c) < At("render", c)
       /\ ChildrenBetween(c, "render", "mount")
       /\ \A i \in 1..Len(Children(c)) : instances[Children(c)[i]]
       /\ At("render", c) < At("mount", c)
       /\ At("mount", c) < At("afterMount", c)
       /\ At("afterMount", c) = Len(lifecycle)

\* mount() on the unmounted root has mounted the whole tree
C29_Witness ==
  /\ Mounting
  /\ lifecycleCall.comp = Root
  /\ \A c \in Comps : instances[c] /\ Once("afterMount", c)
UnmountSteps == {"beforeUnmount", "unmounted", "unmount", "afterUnmount"}

\* C30: children tear down before parents: when unmount() marks an instance
\* unmounted and fires unmount / after-unmount, every child of it is
\* unmounted and whatever the call did below the child, its notifications
\* included, is over; unmount() on an instance that is not mounted does
\* nothing.
C30_ChildrenFirst ==
  /\ lifecycleCall.op = "unmount" /\ ~lifecycleCall.was => lifecycle = <<>>
  /\ \A p \in Comps :
       At("unmounted", p) # 0 =>
         /\ ~instances[p]
         /\ \A step \in UnmountSteps : Once(step, p)
         /\ At("beforeUnmount", p) < At("unmounted", p)
         /\ At("unmounted", p) < At("unmount", p)
         /\ At("unmount", p) < At("afterUnmount", p)
         /\ \A i \in 1..Len(Children(p)) :
              /\ ~instances[Children(p)[i]]
              /\ \A k \in 1..Len(lifecycle) :
                   lifecycle[k].comp \in Subtree(Children(p)[i]) =>
                     At("beforeUnmount", p) < k /\ k < At("unmounted", p)

\* unmount() on the mounted root has unmounted the whole tree
C30_Witness ==
  /\ lifecycleCall = LifeCall("unmount", Root, TRUE, FALSE)
  /\ \A c \in Comps : ~instances[c] /\ Once("afterUnmount", c)

\* C31: dispatching a key in the component tree offers it first to the
\* component that holds focus, the result is true exactly when some handler
\* consumed the key, and no handler runs after the first consumer.
C31_Dispatch ==
  [][(handledNo' # handledNo /\ dispatched' # <<>>) =>
       /\ focusedComponent # NoFocus => dispatched'[1] = focusedComponent
       /\ consumed' <=> \E i \in 1..Len(dispatched') :
                          onInput[dispatched'[i]] = "consume"
       /\ \A i \in 1..Len(dispatched') :
            onInput[dispatched'[i]] = "consume" => i = Len(dispatched')]_vars

\* C32: no update of a Component is lost: while a mounted component's state
\* differs from the state its last render showed, the dirty flag is set and
\* a scheduleUpdate callback is queued, so a render of that state follows,
\* also when the state was set by a listener during update().
C32_NoLostUpdate ==
  (mounted /\ state # lastRender) => (dirty /\ nextTicks > 0)

\* C33: the render-pending flag of a host never gets stuck: isDirty is set
\* only while a setImmediate callback of that host is queued, so a request
\* made while the flag is set is served by that callback, also after a
\* cleanup() followed by a new mount() and after a render pass that failed.
C33_NeverStuck == \A h \in Hosts : isDirty[h] => Pending(h) > 0

\* C34: after every render() the renderer's buffer and the previous buffer
\* it retains hold at most as many lines as the terminal has rows.
C34_BufferWithinRows ==
  (lastOp = "render" /\ isInitialized) =>
    /\ Len(buffer) <= config.height
    /\ Len(previousBuffer) <= config.height

\* C35: in fullscreen mode every cursor positioning and every line clear of a
\* render is for a row index below the terminal height, and the clearing of
\* the rows the previous frame has left never blanks a row that shows a line
\* of the new frame.
C35_RowBounds ==
  (lastOp = "render" /\ config.fullscreen) =>
    \A k \in 1..Len(writes) :
      /\ writes[k].kind \in {"cursor", "erase"} =>
           writes[k].index < config.height
      /\ (writes[k].kind = "erase" /\ writes[k].index >= Len(buffer)) =>
           writes[k].row >= Len(buffer)

\* C36: a mount() that fails for a reason other than MountConflict leaves
\* the host unmounted: componentTree is null when the call has failed, so a
\* later mount() is not refused as 'already mounted'.
C36_FailedMountUnmounted ==
  [][(lastResult'.op = "mount"
        /\ lastResult'.res \notin {"ok", "MountConflict", "none"})
       => componentTree'[lastResult'.h] = NoComponent]_vars

C38_NoShrink ==
  [][Calculated /\ IsFlex(nodes[RootNode]) =>
       LET based == baseSizes(Before, RootNode)
           isRow == IsRow(nodes[RootNode])
           remainingSpace == remainingSpaceOf(based, RootNode)
       IN (/\ lessThan(remainingSpace, Zero)
           /\ \A i \in 1..Len(Items) : nodes[Items[i]].style.flexShrink = Zero) =>
            \A i \in 1..Len(Items) :
               mainSizeOf(nodes'[Items[i]], isRow) =
                 mainSizeOf(based[Items[i]], isRow)]_vars

\* the sum of the heights the first k of the children have
RECURSIVE heightsOf(_, _, _)
heightsOf(ns, kids, k) ==
  IF k = 0 THEN Zero ELSE plus(heightsOf(ns, kids, k - 1), ns[kids[k]].height)

\* C39: in a block container the children stack vertically: after
\* calculate() each child has x = 0 and y equal to the sum of the final
\* heights of the siblings before it, and its size is the one its style
\* resolves to against the parent's full width and the height that remains
\* below those siblings.
C39_BlockStack ==
  [][Calculated /\ nodes[RootNode].style.display = "block" =>
       \A i \in 1..Len(Items) :
          LET child == nodes'[Items[i]]
              above == heightsOf(nodes', Items, i - 1)
              placed == applyConstraints(child, nodes'[RootNode].width,
                                         minus(nodes'[RootNode].height, above))
          IN /\ child.x = Zero
             /\ child.y = above
             /\ child.width = placed.width
             /\ child.height = placed.height]_vars

\* C40: for a tree whose style values are non-negative numbers, after
\* calculate() the x, y, width and height of every node laid out are finite
\* and not negative, in every justifyContent and alignItems setting, also
\* when the children overflow the container.
C40_NonNegative ==
  [][Calculated =>
       \A n \in LaidOut :
          \A v \in {nodes'[n].x, nodes'[n].y, nodes'[n].width, nodes'[n].height} :
             v.den # 0 /\ ~lessThan(v, Zero)]_vars

====
